---- MODULE Spec2Model ----
(***************************************************************************)
(* MemStorage (the in-memory store of the issue recommender) and its two   *)
(* query entry points, getIssues and getRecommendedIssuesForUser.          *)
(*                                                                         *)
(* Representation.  A JavaScript string is a tuple of one-character        *)
(* strings, so that toLowerCase, trim and includes are computed.  A value  *)
(* that may be null or undefined is None (the empty tuple) or Some(v) (the *)
(* one-element tuple).  A Map is the sequence of its values in insertion   *)
(* order, which is the order Array.from(map.values()) yields.  Times are   *)
(* milliseconds since the process started.                                 *)
(*                                                                         *)
(* Spec is the store with its writes and the two queries as whole calls.   *)
(* SpecRoutes is the two GET routes in front of the queries, from the      *)
(* query string to the answer.  SpecAwait is getRecommendedIssuesForUser   *)
(* split at its await, with writes of other handlers carried out between.  *)
(* SpecSync is POST /api/sync-issues and SpecConnect is                    *)
(* POST /api/users/github/:username, each as runs that give way at their   *)
(* awaits (runs).  SpecStats is GET /api/stats over a growing store        *)
(* (stats).  SpecTutorial is the onboarding tutorial with its hook         *)
(* (tutorial) and SpecHome the Home page with its Sidebar (home).          *)
(***************************************************************************)
EXTENDS Integers, Sequences, FiniteSets, TLC

VARIABLES issues, users, now, call, result, request, pending,
          runs, stats, tutorial, home

vars == <<issues, users, now, call, result, request, pending,
          runs, stats, tutorial, home>>

----------------------------------------------------------------------------
(* Bounds of the model *)

MaxUsers == 1

MaxTicks == 1

MaxMeanwhile == 2

----------------------------------------------------------------------------
(* null / undefined *)

None == <<>>

Some(v) == <<v>>

\* x || d for a number or a boolean held in an optional
OrElse(o, d) == IF o = None THEN d ELSE o[1]

----------------------------------------------------------------------------
(* Strings *)

UpperChars == <<"A","B","C","D","E","F","G","H","I","J","K","L","M",
                "N","O","P","Q","R","S","T","U","V","W","X","Y","Z">>

LowerChars == <<"a","b","c","d","e","f","g","h","i","j","k","l","m",
                "n","o","p","q","r","s","t","u","v","w","x","y","z">>

WhiteSpace == {" ", "\t", "\n"}

toLowerCase(s) ==
    [i \in 1..Len(s) |->
        IF \E k \in 1..26 : UpperChars[k] = s[i]
        THEN LowerChars[CHOOSE k \in 1..26 : UpperChars[k] = s[i]]
        ELSE s[i]]

trim(s) ==
    LET keep == {i \in 1..Len(s) : s[i] \notin WhiteSpace}
        Min(S) == CHOOSE x \in S : \A y \in S : x <= y
        Max(S) == CHOOSE x \in S : \A y \in S : x >= y
    IN  IF keep = {} THEN <<>> ELSE SubSeq(s, Min(keep), Max(keep))

\* String.prototype.includes
includes(s, t) ==
    \E i \in 0..(Len(s) - Len(t)) : SubSeq(s, i + 1, i + Len(t)) = t

\* Array.prototype.includes
arrayIncludes(arr, x) == \E i \in 1..Len(arr) : arr[i] = x

\* Array.prototype.some
some(arr, P(_)) == \E i \in 1..Len(arr) : P(arr[i])

\* Array.prototype.slice(start, end) with 0 <= start <= end
slice(arr, start, end) ==
    LET n  == Len(arr)
        lo == IF start > n THEN n ELSE start
        hi == IF end > n THEN n ELSE end
    IN  SubSeq(arr, lo + 1, hi)

\* Array.prototype.sort(compareFn): a stable sort; x goes behind every
\* element that does not compare greater than it.
sort(arr, cmp(_, _)) ==
    LET insert(sorted, x) ==
            LET after == {p \in 1..Len(sorted) : cmp(sorted[p], x) > 0}
                pos   == IF after = {} THEN Len(sorted) + 1
                         ELSE CHOOSE p \in after : \A q \in after : p <= q
            IN  SubSeq(sorted, 1, pos - 1) \o <<x>> \o SubSeq(sorted, pos, Len(sorted))
        ins[k \in 0..Len(arr)] ==
            IF k = 0 THEN <<>> ELSE insert(ins[k - 1], arr[k])
    IN  ins[Len(arr)]

----------------------------------------------------------------------------
(* Texts used as inputs, and the three labels the code names *)

txtGo == <<"G","o">>

txtRust == <<"R","u","s","t">>

txtFixApi == <<"F","i","x"," ","A","p","i">>

txtCrash == <<"C","r","a","s","h">>

txtTypes == <<"T","y","p","e","s">>

txtATypo == <<"a"," ","T","y","p","o">>

txtApi == <<"a","p","i">>

txtCli == <<"c","l","i">>

txtAcme == <<"a","c","m","e">>

txtBeta == <<"b","e","t","a">>

txtBug == <<"b","u","g">>

txtGoodFirstIssueCaps == <<"G","o","o","d"," ","F","i","r","s","t"," ","I","s","s","u","e">>

txtGoodFirstIssue == <<"g","o","o","d"," ","f","i","r","s","t"," ","i","s","s","u","e">>

txtBeginnerFriendly == <<"b","e","g","i","n","n","e","r"," ","f","r","i","e","n","d","l","y">>

txtHelpWanted == <<"h","e","l","p"," ","w","a","n","t","e","d">>

txtAnn == <<"a","n","n">>

txtBob == <<"b","o","b">>

txtBlank == <<" ">>

txtTypo == <<"t","y","p","o">>

txtRustCaps == <<"R","U","S","T">>

txtTySpaced == <<" ","T","y"," ">>

----------------------------------------------------------------------------
(* Inputs of the operations, drawn from small sets *)

\* InsertIssue values
IssueInputs == {
    [githubId |-> 1, number |-> 1, title |-> txtFixApi, body |-> None,
     state |-> "open", labels |-> Some(<<txtBug>>),
     language |-> Some(txtGo), repositoryName |-> txtApi, repositoryOwner |-> txtAcme,
     repositoryStars |-> Some(99), repositoryForks |-> Some(1), comments |-> Some(2),
     difficulty |-> Some("beginner"), isRecommended |-> Some(TRUE)],
    [githubId |-> 2, number |-> 2, title |-> txtCrash, body |-> Some(txtATypo),
     state |-> "open", labels |-> None,
     language |-> None, repositoryName |-> txtCli, repositoryOwner |-> txtAcme,
     repositoryStars |-> Some(100), repositoryForks |-> None, comments |-> None,
     difficulty |-> None, isRecommended |-> None],
    [githubId |-> 3, number |-> 3, title |-> txtTypes, body |-> None,
     state |-> "open", labels |-> Some(<<txtGoodFirstIssueCaps>>),
     language |-> Some(txtRust), repositoryName |-> txtApi, repositoryOwner |-> txtBeta,
     repositoryStars |-> Some(1000), repositoryForks |-> Some(40), comments |-> Some(2),
     difficulty |-> Some("advanced"), isRecommended |-> Some(FALSE)] }

\* InsertUser values
UserInputs == {
    [githubId |-> 11, username |-> txtAnn, avatarUrl |-> None, name |-> None,
     bio |-> None, publicRepos |-> Some(4), followers |-> None, following |-> None,
     topLanguages |-> Some(<<txtGo>>)],
    [githubId |-> 12, username |-> txtBob, avatarUrl |-> None, name |-> None,
     bio |-> None, publicRepos |-> None, followers |-> None, following |-> None,
     topLanguages |-> None] }

\* Partial<InsertUser> values
UserPatches == {
    [topLanguages |-> Some(<<>>)] }

----------------------------------------------------------------------------
(* MemStorage: the writes *)

\* randomUUID(): an id no stored entity has; nothing is ever deleted
freshId(map) == Len(map) + 1

indexOf(map, id) == CHOOSE i \in 1..Len(map) : map[i].id = id

has(map, id) == \E i \in 1..Len(map) : map[i].id = id

\* { ...target, ...source }
spread(target, source) ==
    [k \in DOMAIN target |-> IF k \in DOMAIN source THEN source[k] ELSE target[k]]

isArray(data, key) == key \in DOMAIN data /\ data[key] # None

\* value || null for a string
textOrNull(o) == IF o = None \/ o[1] = <<>> THEN None ELSE o

createUser(insertUser, id) ==
    [id |-> id,
     githubId |-> insertUser.githubId,
     username |-> insertUser.username,
     name |-> textOrNull(insertUser.name),
     avatarUrl |-> textOrNull(insertUser.avatarUrl),
     bio |-> textOrNull(insertUser.bio),
     publicRepos |-> Some(OrElse(insertUser.publicRepos, 0)),
     followers |-> Some(OrElse(insertUser.followers, 0)),
     following |-> Some(OrElse(insertUser.following, 0)),
     topLanguages |-> IF isArray(insertUser, "topLanguages")
                      THEN insertUser.topLanguages[1] ELSE <<>>]

updateUser(user, updateData) ==
    [spread(user, updateData) EXCEPT
        !.topLanguages = IF isArray(updateData, "topLanguages")
                         THEN updateData.topLanguages[1] ELSE user.topLanguages]

createIssue(insertIssue, id, t) ==
    [id |-> id,
     githubId |-> insertIssue.githubId,
     number |-> insertIssue.number,
     title |-> insertIssue.title,
     state |-> insertIssue.state,
     repositoryName |-> insertIssue.repositoryName,
     repositoryOwner |-> insertIssue.repositoryOwner,
     body |-> textOrNull(insertIssue.body),
     language |-> textOrNull(insertIssue.language),
     labels |-> IF isArray(insertIssue, "labels") THEN insertIssue.labels[1] ELSE <<>>,
     repositoryStars |-> Some(OrElse(insertIssue.repositoryStars, 0)),
     repositoryForks |-> Some(OrElse(insertIssue.repositoryForks, 0)),
     comments |-> Some(OrElse(insertIssue.comments, 0)),
     difficulty |-> IF insertIssue.difficulty = None \/ insertIssue.difficulty[1] = ""
                    THEN None ELSE insertIssue.difficulty,
     isRecommended |-> Some(OrElse(insertIssue.isRecommended, FALSE)),
     updatedAt |-> t]

updateIssue(issue, updateData, t) ==
    [spread(issue, updateData) EXCEPT
        !.labels = IF isArray(updateData, "labels")
                   THEN updateData.labels[1] ELSE issue.labels,
        !.updatedAt = t]

----------------------------------------------------------------------------
(* MemStorage: the queries *)

\* 7 * 24 * 60 * 60 * 1000 milliseconds
WeekMs == 7 * 24 * 60 * 60 * 1000

beginnerLabels == <<txtGoodFirstIssue, txtBeginnerFriendly, txtHelpWanted>>

getUser(userMap, id) ==
    IF has(userMap, id) THEN Some(userMap[indexOf(userMap, id)]) ELSE None

\* filters.search && filters.search.trim()
searchGiven(filters) ==
    /\ filters.search # None
    /\ filters.search[1] # <<>>
    /\ trim(filters.search[1]) # <<>>

\* mutant: the repository owner is not searched
searchMatch_skipsOwner(issue, searchTerm) ==
    LET titleMatch    == includes(toLowerCase(issue.title), searchTerm)
        bodyMatch     == issue.body # None
                         /\ includes(toLowerCase(issue.body[1]), searchTerm)
        repoMatch     == includes(toLowerCase(issue.repositoryName), searchTerm)
        languageMatch == issue.language # None
                         /\ includes(toLowerCase(issue.language[1]), searchTerm)
        labelsMatch   == some(issue.labels,
                              LAMBDA label : includes(toLowerCase(label), searchTerm))
    IN  titleMatch \/ bodyMatch \/ repoMatch \/ languageMatch \/ labelsMatch

\* the callback of the search filter; the two entry points hold the same text
searchMatch(issue, searchTerm) ==
    LET titleMatch    == includes(toLowerCase(issue.title), searchTerm)
        bodyMatch     == issue.body # None
                         /\ includes(toLowerCase(issue.body[1]), searchTerm)
        repoMatch     == includes(toLowerCase(issue.repositoryName), searchTerm)
        ownerMatch    == includes(toLowerCase(issue.repositoryOwner), searchTerm)
        languageMatch == issue.language # None
                         /\ includes(toLowerCase(issue.language[1]), searchTerm)
        labelsMatch   == some(issue.labels,
                              LAMBDA label : includes(toLowerCase(label), searchTerm))
    IN  titleMatch \/ bodyMatch \/ repoMatch \/ ownerMatch \/ languageMatch \/ labelsMatch

\* mutant: an empty list is a constraint too
listGiven_emptyIsActive(o) == o # None

\* filters.languages && filters.languages.length > 0
listGiven(o) == o # None /\ Len(o[1]) > 0

\* mutant: an issue without a language passes the language filter
languageMatch_missingPasses(issue, filters) ==
    \/ issue.language = None
    \/ arrayIncludes(filters.languages[1], issue.language[1])

\* issue.language && filters.languages!.includes(issue.language)
languageMatch(issue, filters) ==
    /\ issue.language # None
    /\ issue.language[1] # <<>>
    /\ arrayIncludes(filters.languages[1], issue.language[1])

\* issue.difficulty && filters.difficulty!.includes(issue.difficulty)
difficultyMatch(issue, filters) ==
    /\ issue.difficulty # None
    /\ issue.difficulty[1] # ""
    /\ arrayIncludes(filters.difficulty[1], issue.difficulty[1])

\* filters.repositorySize && filters.repositorySize !== "any"
sizeGiven(filters) ==
    /\ filters.repositorySize # None
    /\ filters.repositorySize[1] # ""
    /\ filters.repositorySize[1] # "any"

\* mutant: the buckets are closed at the upper end
sizeMatch_closedAbove(issue, filters) ==
    LET stars == OrElse(issue.repositoryStars, 0)
    IN  CASE filters.repositorySize[1] = "small"  -> stars <= 100
          [] filters.repositorySize[1] = "medium" -> stars > 100 /\ stars <= 1000
          [] filters.repositorySize[1] = "large"  -> stars > 1000
          [] OTHER -> TRUE

\* the callback of the repository size filter
sizeMatch(issue, filters) ==
    LET stars == OrElse(issue.repositoryStars, 0)
    IN  CASE filters.repositorySize[1] = "small"  -> stars < 100
          [] filters.repositorySize[1] = "medium" -> stars >= 100 /\ stars < 1000
          [] filters.repositorySize[1] = "large"  -> stars >= 1000
          [] OTHER -> TRUE

\* mutant: the stars are compared the other way round
compareIssues_ascendingStars(a, b, filters) ==
    LET sortBy == IF filters.sortBy = None \/ filters.sortBy[1] = ""
                  THEN "recent" ELSE filters.sortBy[1]
    IN  CASE sortBy = "stars" ->
               OrElse(a.repositoryStars, 0) - OrElse(b.repositoryStars, 0)
          [] sortBy = "comments" ->
               OrElse(b.comments, 0) - OrElse(a.comments, 0)
          [] sortBy = "match" ->
               (IF OrElse(b.isRecommended, FALSE) THEN 1 ELSE 0)
               - (IF OrElse(a.isRecommended, FALSE) THEN 1 ELSE 0)
          [] OTHER -> b.updatedAt - a.updatedAt

\* the compare function of getIssues
compareIssues(a, b, filters) ==
    LET sortBy == IF filters.sortBy = None \/ filters.sortBy[1] = ""
                  THEN "recent" ELSE filters.sortBy[1]
    IN  CASE sortBy = "stars" ->
               OrElse(b.repositoryStars, 0) - OrElse(a.repositoryStars, 0)
          [] sortBy = "comments" ->
               OrElse(b.comments, 0) - OrElse(a.comments, 0)
          [] sortBy = "match" ->
               (IF OrElse(b.isRecommended, FALSE) THEN 1 ELSE 0)
               - (IF OrElse(a.isRecommended, FALSE) THEN 1 ELSE 0)
          [] OTHER -> b.updatedAt - a.updatedAt

\* mutant: total is the length of the page
paginate_totalOfPage(allIssues, filters) ==
    LET page  == IF OrElse(filters.page, 0) = 0 THEN 1 ELSE filters.page[1]
        limit == IF OrElse(filters.limit, 0) = 0 THEN 10 ELSE filters.limit[1]
        start == (page - 1) * limit
        items == slice(allIssues, start, start + limit)
    IN  [issues |-> items, total |-> Len(items)]

\* mutant: the slice ends one item late
paginate_endsOneLate(allIssues, filters) ==
    LET total == Len(allIssues)
        page  == IF OrElse(filters.page, 0) = 0 THEN 1 ELSE filters.page[1]
        limit == IF OrElse(filters.limit, 0) = 0 THEN 10 ELSE filters.limit[1]
        start == (page - 1) * limit
    IN  [issues |-> slice(allIssues, start, start + limit + 1), total |-> total]

\* mutant: the first page starts at limit
paginate_startsAtPage(allIssues, filters) ==
    LET total == Len(allIssues)
        page  == IF OrElse(filters.page, 0) = 0 THEN 1 ELSE filters.page[1]
        limit == IF OrElse(filters.limit, 0) = 0 THEN 10 ELSE filters.limit[1]
        start == page * limit
    IN  [issues |-> slice(allIssues, start, start + limit), total |-> total]

\* const page = filters.page || 1; const limit = filters.limit || 10; slice
paginate(allIssues, filters) ==
    LET total == Len(allIssues)
        page  == IF OrElse(filters.page, 0) = 0 THEN 1 ELSE filters.page[1]
        limit == IF OrElse(filters.limit, 0) = 0 THEN 10 ELSE filters.limit[1]
        start == (page - 1) * limit
    IN  [issues |-> slice(allIssues, start, start + limit), total |-> total]

\* getIssues up to the sort: the filtered and sorted array
getIssuesSorted(issueMap, filters) ==
    LET all0 == issueMap
        all1 == IF searchGiven(filters)
                THEN LET searchTerm == trim(toLowerCase(filters.search[1]))
                     IN  SelectSeq(all0, LAMBDA issue : searchMatch(issue, searchTerm))
                ELSE all0
        all2 == IF listGiven(filters.languages)
                THEN SelectSeq(all1, LAMBDA issue : languageMatch(issue, filters))
                ELSE all1
        all3 == IF listGiven(filters.difficulty)
                THEN SelectSeq(all2, LAMBDA issue : difficultyMatch(issue, filters))
                ELSE all2
        all4 == IF sizeGiven(filters)
                THEN SelectSeq(all3, LAMBDA issue : sizeMatch(issue, filters))
                ELSE all3
    IN  sort(all4, LAMBDA a, b : compareIssues(a, b, filters))

getIssues(issueMap, filters) ==
    paginate(getIssuesSorted(issueMap, filters), filters)

\* mutant: a repository with exactly 100 stars earns the popularity points
calculateRecommendationScore_starsFromHundred(issue, user, t) ==
    (IF /\ issue.language # None
        /\ issue.language[1] # <<>>
        /\ arrayIncludes(user.topLanguages, issue.language[1])
     THEN 10 ELSE 0)
    + (IF some(issue.labels,
               LAMBDA label : arrayIncludes(beginnerLabels, toLowerCase(label)))
       THEN 15 ELSE 0)
    + (IF OrElse(issue.repositoryStars, 0) >= 100 THEN 5 ELSE 0)
    + (IF issue.updatedAt > t - WeekMs THEN 3 ELSE 0)

\* mutant: any language that is set earns the language points
calculateRecommendationScore_anyLanguageEarns(issue, user, t) ==
    (IF issue.language # None /\ issue.language[1] # <<>> THEN 10 ELSE 0)
    + (IF some(issue.labels,
               LAMBDA label : arrayIncludes(beginnerLabels, toLowerCase(label)))
       THEN 15 ELSE 0)
    + (IF OrElse(issue.repositoryStars, 0) > 100 THEN 5 ELSE 0)
    + (IF issue.updatedAt > t - WeekMs THEN 3 ELSE 0)

calculateRecommendationScore(issue, user, t) ==
    (IF /\ issue.language # None
        /\ issue.language[1] # <<>>
        /\ arrayIncludes(user.topLanguages, issue.language[1])
     THEN 10 ELSE 0)
    + (IF some(issue.labels,
               LAMBDA label : arrayIncludes(beginnerLabels, toLowerCase(label)))
       THEN 15 ELSE 0)
    + (IF OrElse(issue.repositoryStars, 0) > 100 THEN 5 ELSE 0)
    + (IF issue.updatedAt > t - WeekMs THEN 3 ELSE 0)

\* mutant: an issue flagged at ingestion stays recommended
markRecommended_keepsStoredFlag(issue, user) ==
    [issue EXCEPT !.isRecommended =
        Some(\/ OrElse(issue.isRecommended, FALSE)
             \/ arrayIncludes(user.topLanguages, OrElse(issue.language, <<>>))
             \/ some(issue.labels,
                     LAMBDA label : arrayIncludes(beginnerLabels, toLowerCase(label))))]

\* the map callback that marks recommended issues
markRecommended(issue, user) ==
    [issue EXCEPT !.isRecommended =
        Some(\/ arrayIncludes(user.topLanguages, OrElse(issue.language, <<>>))
             \/ some(issue.labels,
                     LAMBDA label : arrayIncludes(beginnerLabels, toLowerCase(label))))]

\* mutant: the narrowing does not ask whether the user has languages
affinityNarrow_noLengthGuard(allIssues, user) ==
    SelectSeq(allIssues,
              LAMBDA issue : \/ issue.language = None
                             \/ issue.language[1] = <<>>
                             \/ arrayIncludes(user.topLanguages, issue.language[1]))

\* the affinity filter of the else branch
affinityNarrow(allIssues, user) ==
    IF Len(user.topLanguages) > 0
    THEN SelectSeq(allIssues,
                   LAMBDA issue : \/ issue.language = None
                                  \/ issue.language[1] = <<>>
                                  \/ arrayIncludes(user.topLanguages, issue.language[1]))
    ELSE allIssues

\* mutant: the narrowing is applied to the search results too
recommendedCandidates_alwaysNarrow(issueMap, user, filters) ==
    IF searchGiven(filters)
    THEN LET searchTerm == trim(toLowerCase(filters.search[1]))
         IN  affinityNarrow(
                 SelectSeq(issueMap, LAMBDA issue : searchMatch(issue, searchTerm)), user)
    ELSE affinityNarrow(issueMap, user)

\* the search filter, or else the affinity filter
recommendedCandidates(issueMap, user, filters) ==
    IF searchGiven(filters)
    THEN LET searchTerm == trim(toLowerCase(filters.search[1]))
         IN  SelectSeq(issueMap, LAMBDA issue : searchMatch(issue, searchTerm))
    ELSE affinityNarrow(issueMap, user)

\* mutant: the difficulty filter is left out
recommendedMarked_skipsDifficulty(issueMap, user, filters) ==
    LET all1 == recommendedCandidates(issueMap, user, filters)
        all2 == IF listGiven(filters.languages)
                THEN SelectSeq(all1, LAMBDA issue : languageMatch(issue, filters))
                ELSE all1
        all4 == IF sizeGiven(filters)
                THEN SelectSeq(all2, LAMBDA issue : sizeMatch(issue, filters))
                ELSE all2
    IN  [i \in 1..Len(all4) |-> markRecommended(all4[i], user)]

\* the other filters, then the mark
recommendedMarked(issueMap, user, filters) ==
    LET all1 == recommendedCandidates(issueMap, user, filters)
        all2 == IF listGiven(filters.languages)
                THEN SelectSeq(all1, LAMBDA issue : languageMatch(issue, filters))
                ELSE all1
        all3 == IF listGiven(filters.difficulty)
                THEN SelectSeq(all2, LAMBDA issue : difficultyMatch(issue, filters))
                ELSE all2
        all4 == IF sizeGiven(filters)
                THEN SelectSeq(all3, LAMBDA issue : sizeMatch(issue, filters))
                ELSE all3
    IN  [i \in 1..Len(all4) |-> markRecommended(all4[i], user)]

\* the sort by recommendation score
sortByScore(recommendedIssues, user, t) ==
    sort(recommendedIssues,
         LAMBDA a, b : calculateRecommendationScore(b, user, t)
                       - calculateRecommendationScore(a, user, t))

\* mutant: an unknown user gets the anonymous result
getRecommendedIssuesForUser_fallsBack(issueMap, userMap, userId, filters, t) ==
    LET user == getUser(userMap, userId)
    IN  IF user = None
        THEN getIssues(issueMap, filters)
        ELSE paginate(sortByScore(recommendedMarked(issueMap, user[1], filters),
                                  user[1], t), filters)

\* mutant: the page is cut first and sorted afterwards
getRecommendedIssuesForUser_sortsThePage(issueMap, userMap, userId, filters, t) ==
    LET user == getUser(userMap, userId)
    IN  IF user = None
        THEN [issues |-> <<>>, total |-> 0]
        ELSE LET cut == paginate(recommendedMarked(issueMap, user[1], filters), filters)
             IN  [issues |-> sortByScore(cut.issues, user[1], t), total |-> cut.total]

getRecommendedIssuesForUser(issueMap, userMap, userId, filters, t) ==
    LET user == getUser(userMap, userId)
    IN  IF user = None
        THEN [issues |-> <<>>, total |-> 0]
        ELSE paginate(sortByScore(recommendedMarked(issueMap, user[1], filters),
                                  user[1], t), filters)

----------------------------------------------------------------------------
(* IssueFilters values handed to the queries (accepted by issueFiltersSchema) *)

SearchInputs == {None, Some(txtBlank), Some(txtTySpaced)}

LanguagesInputs == {None, Some(<<txtGo>>)}

DifficultyInputs == {None, Some(<<"beginner", "advanced">>)}

SizeInputs == {None, Some("medium")}

SortInputs == {None, Some("recent"), Some("stars"), Some("comments"), Some("match")}

PageInputs == {None, Some(2)}

LimitInputs == {Some(1), Some(2)}

\* the filters vary, one page holds everything
PredicateFilters ==
    [search : SearchInputs, languages : LanguagesInputs, difficulty : DifficultyInputs,
     repositorySize : SizeInputs, sortBy : {None}, page : {None}, limit : {None}]

\* the order and the page vary
PagingFilters ==
    [search : {None}, languages : {None}, difficulty : {None},
     repositorySize : {None}, sortBy : SortInputs, page : PageInputs,
     limit : LimitInputs]

\* a filter, an order and a page together
MixedFilters ==
    [search : {None, Some(txtTySpaced)}, languages : {None},
     difficulty : DifficultyInputs, repositorySize : {None},
     sortBy : {Some("stars")}, page : PageInputs, limit : {Some(1)}]

\* one term for each field the search reads, and the empty string
ProbeSearchInputs ==
    {Some(txtCrash), Some(txtTypo), Some(txtCli), Some(txtBeta), Some(txtRustCaps),
     Some(txtBug), Some(<<>>)}

\* one predicate alone: each searched field, each size, the empty lists
ProbeFilters ==
    [search : ProbeSearchInputs, languages : {None}, difficulty : {None},
     repositorySize : {None}, sortBy : {None}, page : {None}, limit : {None}]
    \cup [search : {None}, languages : {None}, difficulty : {None},
          repositorySize : {Some("any"), Some("small"), Some("large")},
          sortBy : {None}, page : {None}, limit : {None}]
    \cup [search : {None}, languages : {Some(<<>>)}, difficulty : {Some(<<>>)},
          repositorySize : {None}, sortBy : {None}, page : {None}, limit : {None}]

FilterInputs == PredicateFilters \cup PagingFilters \cup MixedFilters \cup ProbeFilters

noFilters ==
    [search |-> None, languages |-> None, difficulty |-> None, repositorySize |-> None,
     sortBy |-> None, page |-> None, limit |-> None]

\* the clock advances in steps of one week
TickMs == WeekMs

noCall == [op |-> "none", userId |-> 0, filters |-> noFilters, at |-> 0]

noResult == [issues |-> <<>>, total |-> 0]

----------------------------------------------------------------------------
(* The routes GET /api/issues and GET /api/users/:userId/recommended-issues *)
(* A query parameter is absent (None) or present; page, limit and search    *)
(* arrive as one string, languages and difficulty as one string or as an    *)
(* array of strings ([isArray, items]: a single string is its one item).    *)

Digits == <<"0","1","2","3","4","5","6","7","8","9">>

isDigit(c) == \E d \in 1..10 : Digits[d] = c

digitValue(c) == (CHOOSE d \in 1..10 : Digits[d] = c) - 1

\* a number of JavaScript: NaN or an integer
NaN == [isNaN |-> TRUE, value |-> 0]

Number(n) == [isNaN |-> FALSE, value |-> n]

\* parseInt(string, 10): leading white space, a sign, then the digits up to
\* the first other character; NaN without a digit
parseInt(s) ==
    LET blanks == {i \in 1..Len(s) : \A j \in 1..i : s[j] \in WhiteSpace}
        t      == SubSeq(s, Cardinality(blanks) + 1, Len(s))
        signed == t # <<>> /\ t[1] \in {"+", "-"}
        body   == IF signed THEN Tail(t) ELSE t
        count  == Cardinality({i \in 1..Len(body) : \A j \in 1..i : isDigit(body[j])})
        val[k \in 0..count] ==
            IF k = 0 THEN 0 ELSE val[k - 1] * 10 + digitValue(body[k])
    IN  IF count = 0 THEN NaN
        ELSE IF signed /\ t[1] = "-" THEN Number(0 - val[count]) ELSE Number(val[count])

\* mutant: the schema sets no maximum for limit
issueFiltersSchema_noMaximum(input) ==
    LET listOk(o)   == o = None \/ o[1].isArray
        sizeOk      == input.repositorySize = None
                       \/ input.repositorySize[1] \in {"any", "small", "medium", "large"}
        sortOk      == input.sortBy = None
                       \/ input.sortBy[1] \in {"recent", "stars", "match", "comments"}
        pageOk      == input.page = None
                       \/ (~input.page[1].isNaN /\ input.page[1].value >= 1)
        limitOk     == input.limit = None
                       \/ (~input.limit[1].isNaN /\ input.limit[1].value >= 1)
        list(o)     == IF o = None THEN None ELSE Some(o[1].items)
        number(o)   == IF o = None THEN None ELSE Some(o[1].value)
    IN  IF /\ listOk(input.languages) /\ listOk(input.difficulty)
           /\ sizeOk /\ sortOk /\ pageOk /\ limitOk
        THEN Some([search |-> input.search, languages |-> list(input.languages),
                   difficulty |-> list(input.difficulty),
                   repositorySize |-> input.repositorySize, sortBy |-> input.sortBy,
                   page |-> number(input.page), limit |-> number(input.limit)])
        ELSE None

\* issueFiltersSchema.parse: the parsed filters, or None for a ZodError
issueFiltersSchema(input) ==
    LET listOk(o)   == o = None \/ o[1].isArray
        sizeOk      == input.repositorySize = None
                       \/ input.repositorySize[1] \in {"any", "small", "medium", "large"}
        sortOk      == input.sortBy = None
                       \/ input.sortBy[1] \in {"recent", "stars", "match", "comments"}
        pageOk      == input.page = None
                       \/ (~input.page[1].isNaN /\ input.page[1].value >= 1)
        limitOk     == input.limit = None
                       \/ (/\ ~input.limit[1].isNaN
                           /\ input.limit[1].value >= 1
                           /\ input.limit[1].value <= 100)
        list(o)     == IF o = None THEN None ELSE Some(o[1].items)
        number(o)   == IF o = None THEN None ELSE Some(o[1].value)
    IN  IF /\ listOk(input.languages) /\ listOk(input.difficulty)
           /\ sizeOk /\ sortOk /\ pageOk /\ limitOk
        THEN Some([search |-> input.search, languages |-> list(input.languages),
                   difficulty |-> list(input.difficulty),
                   repositorySize |-> input.repositorySize, sortBy |-> input.sortBy,
                   page |-> number(input.page), limit |-> number(input.limit)])
        ELSE None

\* query.x && typeof query.x === 'string' for a parameter that holds one string
isText(o) == o # None /\ o[1] # <<>>

\* the same test for languages and difficulty; empty is their empty string
isOneText(o, empty) == o # None /\ ~o[1].isArray /\ o[1].items[1] # empty

\* the handler up to the schema: the input it hands to issueFiltersSchema.parse
transformQuery(query) ==
    LET wrap(o, empty) ==
            IF isOneText(o, empty) THEN Some([o[1] EXCEPT !.isArray = TRUE]) ELSE o
    IN  [languages      |-> wrap(query.languages, <<>>),
         difficulty     |-> wrap(query.difficulty, ""),
         repositorySize |-> query.repositorySize,
         sortBy         |-> query.sortBy,
         page           |-> IF isText(query.page) THEN Some(parseInt(query.page[1]))
                            ELSE None,
         limit          |-> IF isText(query.limit) THEN Some(parseInt(query.limit[1]))
                            ELSE None,
         search         |-> IF isText(query.search) THEN Some(trim(query.search[1]))
                            ELSE None]

\* the filters of a request, or None when the handler answers 400
requestFilters(query) == issueFiltersSchema(transformQuery(query))

\* req.query of the requests
oneText(text) == Some([isArray |-> FALSE, items |-> <<text>>])

noQuery ==
    [search |-> None, languages |-> None, difficulty |-> None, repositorySize |-> None,
     sortBy |-> None, page |-> None, limit |-> None]

PageTexts == {<<"2">>, <<"0">>, <<"-","1">>, <<"x">>, <<>>, <<" ","2","x">>}

LimitTexts == {<<"1">>, <<"1","0","0">>, <<"0">>, <<"1","0","1">>, <<"x">>}

QueryInputs ==
    {[noQuery EXCEPT !.page = Some(text)] : text \in PageTexts}
    \cup {[noQuery EXCEPT !.limit = Some(text)] : text \in LimitTexts}
    \cup {[noQuery EXCEPT !.repositorySize = Some(size)] : size \in {"medium", "huge"}}
    \cup {[noQuery EXCEPT !.sortBy = Some(sortBy)] : sortBy \in {"stars", "best"}}
    \cup {[noQuery EXCEPT !.languages = languages] :
             languages \in {oneText(txtGo), oneText(<<>>),
                            Some([isArray |-> TRUE, items |-> <<txtGo, txtRust>>])}}
    \cup {[noQuery EXCEPT !.difficulty = oneText("beginner")],
          [noQuery EXCEPT !.search = Some(txtTySpaced)],
          [noQuery EXCEPT !.page = Some(<<"2">>), !.limit = Some(<<"1","0","1">>)],
          [noQuery EXCEPT !.page = Some(<<"2">>), !.limit = Some(<<"1">>)],
          noQuery}

noRequest == [route |-> "none", userId |-> 0, query |-> noQuery, status |-> 0]

\* no query waits at its await
noPending == [user |-> None, seen |-> <<>>]

----------------------------------------------------------------------------
(* POST /api/sync-issues.  What GitHub answers is an input: the items of    *)
(* the searches, and the details of a repository (or a failed fetch).       *)

txtHard == <<"h","a","r","d">>

txtMediumCaps == <<"M","e","d","i","u","m">>

txtBeginner == <<"b","e","g","i","n","n","e","r">>

txtIntermediate == <<"i","n","t","e","r","m","e","d","i","a","t","e">>

txtMedium == <<"m","e","d","i","u","m">>

txtAdvanced == <<"a","d","v","a","n","c","e","d">>

txtExpert == <<"e","x","p","e","r","t">>

\* Array.prototype.join
join(arr, sep) ==
    LET j[k \in 0..Len(arr)] ==
            IF k = 0 THEN <<>>
            ELSE IF k = 1 THEN arr[1]
            ELSE j[k - 1] \o sep \o arr[k]
    IN  j[Len(arr)]

\* mutant: an issue without a telling label gets no difficulty
determineDifficulty_noDefault(labels) ==
    LET labelText == toLowerCase(join(labels, <<" ">>))
    IN  IF includes(labelText, txtGoodFirstIssue) \/ includes(labelText, txtBeginner)
        THEN "beginner"
        ELSE IF includes(labelText, txtIntermediate) \/ includes(labelText, txtMedium)
        THEN "intermediate"
        ELSE IF \/ includes(labelText, txtAdvanced)
                \/ includes(labelText, txtHard)
                \/ includes(labelText, txtExpert)
        THEN "advanced"
        ELSE ""

determineDifficulty(labels) ==
    LET labelText == toLowerCase(join(labels, <<" ">>))
    IN  IF includes(labelText, txtGoodFirstIssue) \/ includes(labelText, txtBeginner)
        THEN "beginner"
        ELSE IF includes(labelText, txtIntermediate) \/ includes(labelText, txtMedium)
        THEN "intermediate"
        ELSE IF \/ includes(labelText, txtAdvanced)
                \/ includes(labelText, txtHard)
                \/ includes(labelText, txtExpert)
        THEN "advanced"
        ELSE "beginner"

\* items of the search results: the fields of a GitHub issue the route reads
GithubIssueInputs == {
    [id |-> 1, number |-> 1, title |-> txtFixApi, body |-> None, state |-> "open",
     labels |-> Some(<<txtGoodFirstIssueCaps>>), comments |-> 2,
     owner |-> txtAcme, repoName |-> txtApi],
    [id |-> 1, number |-> 1, title |-> txtFixApi, body |-> Some(txtATypo),
     state |-> "open", labels |-> None, comments |-> 5,
     owner |-> txtAcme, repoName |-> txtApi],
    [id |-> 2, number |-> 2, title |-> txtCrash, body |-> None, state |-> "open",
     labels |-> Some(<<txtBug, txtHard>>), comments |-> 0,
     owner |-> txtAcme, repoName |-> txtCli],
    [id |-> 2, number |-> 2, title |-> txtCrash, body |-> None, state |-> "open",
     labels |-> Some(<<txtMediumCaps, txtHelpWanted>>), comments |-> 1,
     owner |-> txtAcme, repoName |-> txtCli] }

githubIssue(id, comments) ==
    CHOOSE g \in GithubIssueInputs : g.id = id /\ g.comments = comments

\* allIssues after the six searches: the same item may be found twice
SearchResults == {
    <<githubIssue(1, 2), githubIssue(2, 0), githubIssue(1, 2)>>,
    <<githubIssue(1, 5)>>,
    <<githubIssue(2, 1)>> }

\* the answer of /repos/:owner/:repo
RepoInputs == {
    [owner |-> txtAcme, name |-> txtApi,
     language |-> Some(txtGo), stargazers_count |-> 1000, forks_count |-> 40],
    [owner |-> txtAcme, name |-> txtCli,
     language |-> None, stargazers_count |-> 0, forks_count |-> 0] }

\* allIssues.filter((issue, index, self) => index === self.findIndex(...))
uniqueIssues(allIssues) ==
    LET first(k) == CHOOSE i \in 1..Len(allIssues) :
                        /\ allIssues[i].id = allIssues[k].id
                        /\ \A h \in 1..(i - 1) : allIssues[h].id # allIssues[k].id
        keep == {k \in 1..Len(allIssues) : first(k) = k}
        pick[k \in 0..Len(allIssues)] ==
            IF k = 0 THEN <<>>
            ELSE IF k \in keep THEN Append(pick[k - 1], allIssues[k])
            ELSE pick[k - 1]
    IN  pick[Len(allIssues)]

\* the issueData object of the route
issueData(githubIssue_, repoDetails) ==
    LET labels == IF githubIssue_.labels = None THEN <<>> ELSE githubIssue_.labels[1]
    IN  [githubId |-> githubIssue_.id,
         number |-> githubIssue_.number,
         title |-> githubIssue_.title,
         body |-> IF githubIssue_.body = None THEN Some(<<>>) ELSE githubIssue_.body,
         state |-> githubIssue_.state,
         labels |-> Some(labels),
         language |-> repoDetails.language,
         repositoryName |-> githubIssue_.repoName,
         repositoryOwner |-> githubIssue_.owner,
         repositoryStars |-> Some(repoDetails.stargazers_count),
         repositoryForks |-> Some(repoDetails.forks_count),
         comments |-> Some(githubIssue_.comments),
         difficulty |-> Some(determineDifficulty(labels)),
         isRecommended |-> Some(some(labels,
             LAMBDA label : arrayIncludes(beginnerLabels, toLowerCase(label))))]

getIssueByGithubId(issueMap, githubId) ==
    IF \E i \in 1..Len(issueMap) : issueMap[i].githubId = githubId
    THEN Some(issueMap[CHOOSE i \in 1..Len(issueMap) :
                          /\ issueMap[i].githubId = githubId
                          /\ \A h \in 1..(i - 1) : issueMap[h].githubId # githubId])
    ELSE None

----------------------------------------------------------------------------
(* POST /api/users/github/:username.  What GitHub answers is an input: the  *)
(* account, and the languages of its most recently updated repositories.    *)

GithubUserInputs == {
    [id |-> 11, login |-> txtAnn, avatar_url |-> None, name |-> None, bio |-> None,
     public_repos |-> 4, followers |-> 0, following |-> 0],
    [id |-> 12, login |-> txtBob, avatar_url |-> None, name |-> Some(txtBob),
     bio |-> None, public_repos |-> 0, followers |-> 1, following |-> 0] }

\* repo.language of the repositories, in the order GitHub lists them
GithubReposInputs == {
    <<>>,
    <<Some(txtGo), None, Some(txtRust), Some(txtRust)>> }

\* languageCounts, then Object.entries(...).sort(...).slice(0, 5).map(...)
topLanguagesOf(githubRepos) ==
    LET named == SelectSeq(githubRepos, LAMBDA l : l # None /\ l[1] # <<>>)
        count(lang) == Cardinality({k \in 1..Len(named) : named[k][1] = lang})
        isFirst(k) == \A h \in 1..(k - 1) : named[h] # named[k]
        entries[k \in 0..Len(named)] ==
            IF k = 0 THEN <<>>
            ELSE IF isFirst(k)
            THEN Append(entries[k - 1], [lang |-> named[k][1], n |-> count(named[k][1])])
            ELSE entries[k - 1]
        sorted == sort(entries[Len(named)], LAMBDA a, b : b.n - a.n)
        top    == slice(sorted, 0, 5)
    IN  [k \in 1..Len(top) |-> top[k].lang]

\* the userData object of the route
userData(githubUser, githubRepos) ==
    [githubId |-> githubUser.id,
     username |-> githubUser.login,
     avatarUrl |-> githubUser.avatar_url,
     name |-> githubUser.name,
     bio |-> githubUser.bio,
     publicRepos |-> Some(githubUser.public_repos),
     followers |-> Some(githubUser.followers),
     following |-> Some(githubUser.following),
     topLanguages |-> Some(topLanguagesOf(githubRepos))]

getUserByGithubId(userMap, githubId) ==
    IF \E i \in 1..Len(userMap) : userMap[i].githubId = githubId
    THEN Some(userMap[CHOOSE i \in 1..Len(userMap) :
                         /\ userMap[i].githubId = githubId
                         /\ \A h \in 1..(i - 1) : userMap[h].githubId # githubId])
    ELSE None

----------------------------------------------------------------------------
(* Route handlers in progress *)

\* handlers that may be in progress at the same time
MaxRuns == 2

\* a handler that is not running
idleRun ==
    [route |-> "none", pc |-> "idle", todo |-> <<>>, data |-> None,
     existing |-> None, processed |-> 0, answer |-> None]

noRuns == [r \in 1..MaxRuns |-> idleRun]

----------------------------------------------------------------------------
(* GET /api/stats.  A Record<string, number> is the sequence of its         *)
(* entries, each key where it was first set.                                *)

\* counts[key] = (counts[key] || 0) + 1 for every key, then Object.entries
countEntries(keys) ==
    LET count(key) == Cardinality({k \in 1..Len(keys) : keys[k] = key})
        isFirst(k) == \A h \in 1..(k - 1) : keys[h] # keys[k]
        entries[k \in 0..Len(keys)] ==
            IF k = 0 THEN <<>>
            ELSE IF isFirst(k)
            THEN Append(entries[k - 1], [name |-> keys[k], count |-> count(keys[k])])
            ELSE entries[k - 1]
    IN  entries[Len(keys)]

\* the values of a field that are set (truthy), in the order of the issues
truthy(list, field, empty) ==
    LET set == SelectSeq(list, LAMBDA issue : issue[field] # None
                                              /\ issue[field][1] # empty)
    IN  [k \in 1..Len(set) |-> set[k][field][1]]

\* mutant: the counts are taken over every stored issue
apiStats_countsEveryIssue(issueMap, t) ==
    LET allIssues == getIssues(issueMap, [noFilters EXCEPT !.limit = Some(Len(issueMap) + 1)])
        languageCounts   == countEntries(truthy(allIssues.issues, "language", <<>>))
        difficultyCounts == countEntries(truthy(allIssues.issues, "difficulty", ""))
        topLanguages == slice(sort(languageCounts, LAMBDA a, b : b.count - a.count), 0, 10)
    IN  [totalIssues |-> allIssues.total,
         recommendedIssues |->
             Len(SelectSeq(allIssues.issues, LAMBDA i : OrElse(i.isRecommended, FALSE))),
         newIssues |->
             Len(SelectSeq(allIssues.issues, LAMBDA i : i.updatedAt > t - WeekMs)),
         topLanguages |-> topLanguages,
         difficultyCounts |-> difficultyCounts]

\* the object the route answers with
apiStats(issueMap, t) ==
    LET allIssues == getIssues(issueMap, noFilters)
        languageCounts   == countEntries(truthy(allIssues.issues, "language", <<>>))
        difficultyCounts == countEntries(truthy(allIssues.issues, "difficulty", ""))
        topLanguages == slice(sort(languageCounts, LAMBDA a, b : b.count - a.count), 0, 10)
    IN  [totalIssues |-> allIssues.total,
         recommendedIssues |->
             Len(SelectSeq(allIssues.issues, LAMBDA i : OrElse(i.isRecommended, FALSE))),
         newIssues |->
             Len(SelectSeq(allIssues.issues, LAMBDA i : i.updatedAt > t - WeekMs)),
         topLanguages |-> topLanguages,
         difficultyCounts |-> difficultyCounts]

\* issues in the store of the stats runs
MaxStored == 11

----------------------------------------------------------------------------
(* The onboarding tutorial in the browser: the OnboardingTutorial component *)
(* (currentStep), the useOnboarding hook (showOnboarding, the timer of its  *)
(* mount effect) and the hasCompletedOnboarding item of localStorage (flag: *)
(* the item is there; flagAtMount: what the mount effect read).  event is   *)
(* the last thing that happened, called the prop the component called in    *)
(* it.                                                                      *)

\* steps.length
StepsLength == 6

firstVisit ==
    [mounted |-> FALSE, timer |-> FALSE, showOnboarding |-> FALSE, flag |-> FALSE,
     flagAtMount |-> FALSE, currentStep |-> 0, event |-> "none", called |-> "none"]

\* mutant: completing hides the tutorial and stores nothing
completeOnboarding_onlyHides(t) == [t EXCEPT !.showOnboarding = FALSE]

completeOnboarding(t) == [t EXCEPT !.flag = TRUE, !.showOnboarding = FALSE]

resetOnboarding(t) == [t EXCEPT !.flag = FALSE, !.showOnboarding = TRUE]

\* the onComplete prop, as the page passes it: completeOnboarding
onComplete(t) == [completeOnboarding(t) EXCEPT !.called = "onComplete"]

\* the onClose prop, as the page passes it: () => setShowOnboarding(false)
onClose(t) == [t EXCEPT !.showOnboarding = FALSE, !.called = "onClose"]

\* mutant: the last step is not guarded
handleNext_pastTheEnd(t) ==
    IF t.currentStep < StepsLength
    THEN [t EXCEPT !.currentStep = t.currentStep + 1]
    ELSE onComplete(t)

handleNext(t) ==
    IF t.currentStep < StepsLength - 1
    THEN [t EXCEPT !.currentStep = t.currentStep + 1]
    ELSE onComplete(t)

handlePrevious(t) ==
    IF t.currentStep > 0
    THEN [t EXCEPT !.currentStep = t.currentStep - 1]
    ELSE t

handleSkip(t) == onComplete(t)

----------------------------------------------------------------------------
(* The Home page with its Sidebar: filters and currentUser are state of     *)
(* Home, selectedLanguages, selectedDifficulties and repositorySize state   *)
(* of the Sidebar; issuesData and recommendedData are what the two queries  *)
(* hold for the present filters (None while a query is loading; a change of *)
(* the filters or of the user is a new query key).  What the server answers *)
(* is an input: the total.  event is the last thing that happened.          *)

\* Math.ceil(total / limit)
ceilDiv(total, limit) == (total + limit - 1) \div limit

homeMounted ==
    [currentUser |-> None,
     filters |-> [noFilters EXCEPT !.difficulty = Some(<<"beginner">>),
                                   !.page = Some(1), !.limit = Some(10),
                                   !.sortBy = Some("recent")],
     sidebar |-> [selectedLanguages |-> <<>>, selectedDifficulties |-> <<"beginner">>,
                  repositorySize |-> "any"],
     issuesData |-> None,
     recommendedData |-> None,
     event |-> "mount"]

\* the items of a checkbox list after a click on one of them
toggled(selected, item, checked) ==
    IF checked THEN Append(selected, item)
    ELSE SelectSeq(selected, LAMBDA x : x # item)

\* Sidebar.updateFilters: what it hands to onFiltersChange
updateFilters(sidebar, newFilters) ==
    [k \in {"languages", "difficulty", "repositorySize"} |->
        IF k \in DOMAIN newFilters THEN newFilters[k]
        ELSE CASE k = "languages" -> Some(sidebar.selectedLanguages)
               [] k = "difficulty" -> Some(sidebar.selectedDifficulties)
               [] k = "repositorySize" -> Some(sidebar.repositorySize)]

\* mutant: the page is left where it was
handleFiltersChange_keepsPage(filters, newFilters) ==
    spread(filters, newFilters)

\* setFilters(prev => ({ ...prev, ...newFilters, page: 1 }))
handleFiltersChange(filters, newFilters) ==
    [spread(filters, newFilters) EXCEPT !.page = Some(1)]

handleSortChange(filters, sortBy) ==
    [filters EXCEPT !.sortBy = Some(sortBy), !.page = Some(1)]

handlePageChange(filters, page) ==
    [filters EXCEPT !.page = Some(page)]

\* const displayData = currentUser && recommendedData ? recommendedData : issuesData
displayData(h) ==
    IF h.currentUser # None /\ h.recommendedData # None
    THEN h.recommendedData ELSE h.issuesData

currentPage(h) == IF OrElse(h.filters.page, 0) = 0 THEN 1 ELSE h.filters.page[1]

limitOf(h) == IF OrElse(h.filters.limit, 0) = 0 THEN 10 ELSE h.filters.limit[1]

totalPages(h) ==
    IF displayData(h) # None THEN ceilDiv(displayData(h)[1].total, limitOf(h)) ELSE 0

\* the pagination is rendered
paginationShown(h) ==
    displayData(h) # None /\ displayData(h)[1].total > limitOf(h)

\* the numbered buttons: the first five pages, and the last one behind the dots
pageButtons(h) ==
    {p \in 1..5 : p <= totalPages(h)}
    \cup (IF totalPages(h) > 5 THEN {totalPages(h)} ELSE {})

\* totals the server answers with
TotalInputs == {0, 5, 25, 60}

\* what the checkboxes and selects offer
DifficultyChoices == {"beginner", "advanced"}

SizeChoices == {"any", "large"}

SortChoices == {"recent", "stars"}

----------------------------------------------------------------------------
(* The state machine *)

Init ==
    /\ issues = <<>>
    /\ users = <<>>
    /\ now = 0
    /\ call = noCall
    /\ result = noResult
    /\ request = noRequest
    /\ pending = noPending
    /\ runs = noRuns
    /\ stats = None
    /\ tutorial = firstVisit
    /\ home = homeMounted

\* Date.now() moves on
Tick ==
    /\ call = noCall
    /\ now + TickMs <= MaxTicks * TickMs
    /\ now' = now + TickMs
    /\ UNCHANGED <<issues, users, call, result, request, pending, runs, stats, tutorial, home>>

CreateUser ==
    /\ call = noCall
    /\ Len(users) < MaxUsers
    /\ \E insertUser \in UserInputs :
          /\ \A i \in 1..Len(users) : users[i].githubId # insertUser.githubId
          /\ users' = Append(users, createUser(insertUser, freshId(users)))
    /\ UNCHANGED <<issues, now, call, result, request, pending, runs, stats, tutorial, home>>

UpdateUser ==
    /\ call = noCall
    /\ \E i \in 1..Len(users), updateData \in UserPatches :
          users' = [users EXCEPT ![i] = updateUser(users[i], updateData)]
    /\ UNCHANGED <<issues, now, call, result, request, pending, runs, stats, tutorial, home>>

CreateIssue ==
    /\ call = noCall
    /\ \E insertIssue \in IssueInputs :
          /\ \A i \in 1..Len(issues) : issues[i].githubId # insertIssue.githubId
          /\ issues' = Append(issues, createIssue(insertIssue, freshId(issues), now))
    /\ UNCHANGED <<users, now, call, result, request, pending, runs, stats, tutorial, home>>

\* mutant: the updated issue is deleted and set again, so it moves to the end
UpdateIssue_reinserts ==
    /\ call = noCall
    /\ \E i \in 1..Len(issues) :
          \E updateData \in {d \in IssueInputs : d.githubId = issues[i].githubId} :
             issues' = SubSeq(issues, 1, i - 1) \o SubSeq(issues, i + 1, Len(issues))
                       \o <<updateIssue(issues[i], updateData, now)>>
    /\ UNCHANGED <<users, now, call, result, request, pending, runs, stats, tutorial, home>>

UpdateIssue ==
    /\ call = noCall
    /\ \E i \in 1..Len(issues) :
          \E updateData \in {d \in IssueInputs : d.githubId = issues[i].githubId} :
             issues' = [issues EXCEPT ![i] = updateIssue(issues[i], updateData, now)]
    /\ UNCHANGED <<users, now, call, result, request, pending, runs, stats, tutorial, home>>

GetIssues ==
    /\ call = noCall
    /\ \E filters \in FilterInputs :
          /\ call' = [op |-> "getIssues", userId |-> 0, filters |-> filters, at |-> now]
          /\ result' = getIssues(issues, filters)
    /\ UNCHANGED <<issues, users, now, request, pending, runs, stats, tutorial, home>>

\* mutant: the scores are those of a week before the call
GetRecommendedIssuesForUser_staleClock ==
    /\ call = noCall
    /\ \E userId \in 1..(MaxUsers + 1), filters \in FilterInputs :
          /\ call' = [op |-> "getRecommendedIssuesForUser", userId |-> userId,
                      filters |-> filters, at |-> now]
          /\ result' = getRecommendedIssuesForUser(issues, users, userId, filters,
                                                   now - TickMs)
    /\ UNCHANGED <<issues, users, now, request, pending, runs, stats, tutorial, home>>

\* mutant: the marks are written to the stored issues
GetRecommendedIssuesForUser_marksTheStore ==
    /\ call = noCall
    /\ \E userId \in 1..(MaxUsers + 1), filters \in FilterInputs :
          /\ call' = [op |-> "getRecommendedIssuesForUser", userId |-> userId,
                      filters |-> filters, at |-> now]
          /\ result' = getRecommendedIssuesForUser(issues, users, userId, filters, now)
          /\ issues' = IF getUser(users, userId) = None THEN issues
                       ELSE [i \in 1..Len(issues) |->
                               markRecommended(issues[i], getUser(users, userId)[1])]
    /\ UNCHANGED <<users, now, request, pending, runs, stats, tutorial, home>>

GetRecommendedIssuesForUser ==
    /\ call = noCall
    /\ \E userId \in 1..(MaxUsers + 1), filters \in FilterInputs :
          /\ call' = [op |-> "getRecommendedIssuesForUser", userId |-> userId,
                      filters |-> filters, at |-> now]
          /\ result' = getRecommendedIssuesForUser(issues, users, userId, filters, now)
    /\ UNCHANGED <<issues, users, now, request, pending, runs, stats, tutorial, home>>

\* the promise of the query resolves: the caller has the result
Return ==
    /\ call # noCall
    /\ call' = noCall
    /\ result' = noResult
    /\ UNCHANGED <<issues, users, now, request, pending, runs, stats, tutorial, home>>

Next ==
    \/ Tick
    \/ CreateUser
    \/ UpdateUser
    \/ CreateIssue
    \/ UpdateIssue
    \/ GetIssues
    \/ GetRecommendedIssuesForUser
    \/ Return

Spec == Init /\ [][Next]_vars

----------------------------------------------------------------------------
(* The routes as steps: the handler up to its answer *)

\* GET /api/issues
ApiIssues ==
    /\ call = noCall
    /\ request = noRequest
    /\ \E query \in QueryInputs :
          LET filters == requestFilters(query)
          IN  IF filters = None
              THEN /\ request' = [route |-> "/api/issues", userId |-> 0,
                                  query |-> query, status |-> 400]
                   /\ UNCHANGED <<call, result>>
              ELSE /\ request' = [route |-> "/api/issues", userId |-> 0,
                                  query |-> query, status |-> 200]
                   /\ call' = [op |-> "getIssues", userId |-> 0,
                               filters |-> filters[1], at |-> now]
                   /\ result' = getIssues(issues, filters[1])
    /\ UNCHANGED <<issues, users, now, pending, runs, stats, tutorial, home>>

\* GET /api/users/:userId/recommended-issues
ApiRecommendedIssues ==
    /\ call = noCall
    /\ request = noRequest
    /\ \E userId \in 1..(MaxUsers + 1), query \in QueryInputs :
          LET filters == requestFilters(query)
              route   == "/api/users/:userId/recommended-issues"
          IN  IF filters = None
              THEN /\ request' = [route |-> route, userId |-> userId,
                                  query |-> query, status |-> 400]
                   /\ UNCHANGED <<call, result>>
              ELSE /\ request' = [route |-> route, userId |-> userId,
                                  query |-> query, status |-> 200]
                   /\ call' = [op |-> "getRecommendedIssuesForUser", userId |-> userId,
                               filters |-> filters[1], at |-> now]
                   /\ result' = getRecommendedIssuesForUser(issues, users, userId,
                                                            filters[1], now)
    /\ UNCHANGED <<issues, users, now, pending, runs, stats, tutorial, home>>

\* res.json(result), or res.status(400).json(...): the request is answered
Respond ==
    /\ request # noRequest
    /\ request' = noRequest
    /\ call' = noCall
    /\ result' = noResult
    /\ UNCHANGED <<issues, users, now, pending, runs, stats, tutorial, home>>

NextRoutes ==
    \/ CreateUser
    \/ CreateIssue
    \/ ApiIssues
    \/ ApiRecommendedIssues
    \/ Respond

SpecRoutes == Init /\ [][NextRoutes]_vars

----------------------------------------------------------------------------
(* getRecommendedIssuesForUser at its await.  The method gives way once,    *)
(* at `await this.getUser(userId)`; writes of other handlers (a running     *)
(* sync, a user that connects again) may be carried out before it goes on   *)
(* with the user it was given.  pending holds that user and what the store  *)
(* held at every instant since.                                             *)

AwaitFilters ==
    {noFilters,
     [noFilters EXCEPT !.search = Some(txtTySpaced)],
     [noFilters EXCEPT !.limit = Some(1)]}

Snapshot(userMap, issueMap) == [users |-> userMap, issues |-> issueMap]

\* const user = await this.getUser(userId)
AwaitGetUser ==
    /\ call = noCall
    /\ \E userId \in 1..(MaxUsers + 1), filters \in AwaitFilters :
          /\ call' = [op |-> "awaitGetUser", userId |-> userId,
                      filters |-> filters, at |-> now]
          /\ pending' = [user |-> getUser(users, userId),
                         seen |-> <<Snapshot(users, issues)>>]
    /\ UNCHANGED <<issues, users, now, result, request, runs, stats, tutorial, home>>

\* storage.createIssue of the sync while the query waits
CreateIssueMeanwhile ==
    /\ call.op = "awaitGetUser"
    /\ Len(pending.seen) <= MaxMeanwhile
    /\ \E insertIssue \in IssueInputs :
          /\ \A i \in 1..Len(issues) : issues[i].githubId # insertIssue.githubId
          /\ issues' = Append(issues, createIssue(insertIssue, freshId(issues), now))
    /\ pending' = [pending EXCEPT !.seen = Append(@, Snapshot(users, issues'))]
    /\ UNCHANGED <<users, now, call, result, request, runs, stats, tutorial, home>>

\* storage.updateUser while the query waits
UpdateUserMeanwhile ==
    /\ call.op = "awaitGetUser"
    /\ Len(pending.seen) <= MaxMeanwhile
    /\ \E i \in 1..Len(users), updateData \in UserPatches :
          users' = [users EXCEPT ![i] = updateUser(users[i], updateData)]
    /\ pending' = [pending EXCEPT !.seen = Append(@, Snapshot(users', issues))]
    /\ UNCHANGED <<issues, now, call, result, request, runs, stats, tutorial, home>>

\* mutant: the total is counted on the issues as they were before the await
Resume_countsBeforeAwait ==
    /\ call.op = "awaitGetUser"
    /\ LET given == IF pending.user = None THEN <<>> ELSE <<pending.user[1]>>
           old   == getRecommendedIssuesForUser(pending.seen[1].issues, given,
                                                call.userId, call.filters, now)
           new   == getRecommendedIssuesForUser(issues, given, call.userId,
                                                call.filters, now)
       IN  result' = [issues |-> new.issues, total |-> old.total]
    /\ call' = [call EXCEPT !.op = "getRecommendedIssuesForUser", !.at = now]
    /\ UNCHANGED <<issues, users, now, pending, request, runs, stats, tutorial, home>>

\* the method goes on after the await: lines 229 to 305, with the user it was
\* given and the issues as they are now
Resume ==
    /\ call.op = "awaitGetUser"
    /\ LET given == IF pending.user = None THEN <<>> ELSE <<pending.user[1]>>
       IN  result' = getRecommendedIssuesForUser(issues, given, call.userId,
                                                 call.filters, now)
    /\ call' = [call EXCEPT !.op = "getRecommendedIssuesForUser", !.at = now]
    /\ UNCHANGED <<issues, users, now, pending, request, runs, stats, tutorial, home>>

NextAwait ==
    \/ CreateUser
    \/ CreateIssue
    \/ GetIssues
    \/ AwaitGetUser
    \/ CreateIssueMeanwhile
    \/ UpdateUserMeanwhile
    \/ Resume

SpecAwait == Init /\ [][NextAwait]_vars

----------------------------------------------------------------------------
(* POST /api/sync-issues as steps.  The handler gives way at every await;   *)
(* a step is what it does from one await to the next.  The searches and the *)
(* removal of duplicates touch no storage and are one step.                 *)

\* the loop goes to its next item, or the handler answers and ends
nextItem(run) ==
    IF Len(run.todo) > 1
    THEN [run EXCEPT !.pc = "fetchRepo", !.todo = Tail(@), !.data = None,
                     !.existing = None]
    ELSE [idleRun EXCEPT !.processed = run.processed]

\* the searches, and uniqueIssues
SyncSearch(r) ==
    /\ runs[r].pc = "idle"
    /\ \E allIssues \in SearchResults :
          runs' = [runs EXCEPT ![r] =
                      [idleRun EXCEPT !.route = "/api/sync-issues", !.pc = "fetchRepo",
                                      !.todo = uniqueIssues(allIssues)]]
    /\ UNCHANGED <<issues, users, now, call, result, request, pending,
                   stats, tutorial, home>>

\* fetching the repository details fails: continue
SyncRepoFails(r) ==
    /\ runs[r].route = "/api/sync-issues"
    /\ runs[r].pc = "fetchRepo"
    /\ runs' = [runs EXCEPT ![r] = nextItem(@)]
    /\ UNCHANGED <<issues, users, now, call, result, request, pending,
                   stats, tutorial, home>>

\* the repository details arrive: issueData is built and
\* storage.getIssueByGithubId is called, whose promise the handler awaits
SyncLookup(r) ==
    /\ runs[r].route = "/api/sync-issues"
    /\ runs[r].pc = "fetchRepo"
    /\ \E repoDetails \in RepoInputs :
          /\ repoDetails.owner = Head(runs[r].todo).owner
          /\ repoDetails.name = Head(runs[r].todo).repoName
          /\ runs' = [runs EXCEPT ![r] =
                         [@ EXCEPT !.pc = "lookedUp",
                                   !.data = Some(issueData(Head(runs[r].todo), repoDetails)),
                                   !.existing = getIssueByGithubId(issues,
                                                                Head(runs[r].todo).id)]]
    /\ UNCHANGED <<issues, users, now, call, result, request, pending,
                   stats, tutorial, home>>

\* existingIssue is there: storage.updateIssue or storage.createIssue, then
\* processedIssues.push
SyncWrite(r) ==
    /\ runs[r].route = "/api/sync-issues"
    /\ runs[r].pc = "lookedUp"
    /\ issues' =
          IF runs[r].existing # None
          THEN LET id == runs[r].existing[1].id
               IN  IF has(issues, id)
                   THEN [issues EXCEPT ![indexOf(issues, id)] =
                            updateIssue(@, runs[r].data[1], now)]
                   ELSE issues
          ELSE Append(issues, createIssue(runs[r].data[1], freshId(issues), now))
    /\ runs' = [runs EXCEPT ![r] = nextItem([@ EXCEPT !.processed = @ + 1])]
    /\ UNCHANGED <<users, now, call, result, request, pending, stats, tutorial, home>>

NextSync ==
    \/ \E r \in 1..MaxRuns : SyncSearch(r)
    \/ \E r \in 1..MaxRuns : SyncRepoFails(r)
    \/ \E r \in 1..MaxRuns : SyncLookup(r)
    \/ \E r \in 1..MaxRuns : SyncWrite(r)

SpecSync == Init /\ [][NextSync]_vars

----------------------------------------------------------------------------
(* The tutorial as steps: the page is loaded and left, the timer of the     *)
(* mount effect fires, the buttons of the dialog are clicked.  A button can *)
(* be clicked when the dialog is open and renders it.                       *)

\* the page is loaded: useState(false), useState(0), and the mount effect
Mount ==
    /\ ~tutorial.mounted
    /\ tutorial' = [tutorial EXCEPT !.mounted = TRUE, !.timer = ~tutorial.flag,
                                    !.flagAtMount = tutorial.flag,
                                    !.showOnboarding = FALSE, !.currentStep = 0,
                                    !.event = "mount", !.called = "none"]
    /\ UNCHANGED <<issues, users, now, call, result, request, pending,
                   runs, stats, home>>

\* the page is left: the cleanup of the effect clears the timer
Unmount ==
    /\ tutorial.mounted
    /\ tutorial' = [tutorial EXCEPT !.mounted = FALSE, !.timer = FALSE,
                                    !.showOnboarding = FALSE, !.currentStep = 0,
                                    !.event = "unmount", !.called = "none"]
    /\ UNCHANGED <<issues, users, now, call, result, request, pending,
                   runs, stats, home>>

\* setTimeout(() => setShowOnboarding(true), 1000)
TimerFires ==
    /\ tutorial.mounted
    /\ tutorial.timer
    /\ tutorial' = [tutorial EXCEPT !.timer = FALSE, !.showOnboarding = TRUE,
                                    !.event = "timer", !.called = "none"]
    /\ UNCHANGED <<issues, users, now, call, result, request, pending,
                   runs, stats, home>>

ResetOnboarding ==
    /\ tutorial.mounted
    /\ tutorial' = [resetOnboarding(tutorial) EXCEPT !.event = "reset",
                                                     !.called = "none"]
    /\ UNCHANGED <<issues, users, now, call, result, request, pending,
                   runs, stats, home>>

ClickNext ==
    /\ tutorial.showOnboarding
    /\ tutorial' = [handleNext([tutorial EXCEPT !.called = "none"])
                       EXCEPT !.event = "next"]
    /\ UNCHANGED <<issues, users, now, call, result, request, pending,
                   runs, stats, home>>

ClickPrevious ==
    /\ tutorial.showOnboarding
    /\ tutorial.currentStep > 0
    /\ tutorial' = [handlePrevious([tutorial EXCEPT !.called = "none"])
                       EXCEPT !.event = "previous"]
    /\ UNCHANGED <<issues, users, now, call, result, request, pending,
                   runs, stats, home>>

ClickSkip ==
    /\ tutorial.showOnboarding
    /\ tutorial.currentStep = 0
    /\ tutorial' = [handleSkip([tutorial EXCEPT !.called = "none"])
                       EXCEPT !.event = "skip"]
    /\ UNCHANGED <<issues, users, now, call, result, request, pending,
                   runs, stats, home>>

\* the X button, or the dialog's onOpenChange
ClickClose ==
    /\ tutorial.showOnboarding
    /\ tutorial' = [onClose(tutorial) EXCEPT !.event = "close"]
    /\ UNCHANGED <<issues, users, now, call, result, request, pending,
                   runs, stats, home>>

NextTutorial ==
    \/ Mount
    \/ Unmount
    \/ TimerFires
    \/ ResetOnboarding
    \/ ClickNext
    \/ ClickPrevious
    \/ ClickSkip
    \/ ClickClose

SpecTutorial == Init /\ [][NextTutorial]_vars

----------------------------------------------------------------------------
(* POST /api/users/github/:username as steps: up to the lookup by the       *)
(* GitHub id, whose promise the handler awaits, and from there to the       *)
(* answer.  The lookup with id 0 at the start has no effect.                *)

\* the account and its repositories arrive; userData is built and
\* storage.getUserByGithubId(githubUser.id) is called
ConnectLookup(r) ==
    /\ runs[r].pc = "idle"
    /\ \E githubUser \in GithubUserInputs, githubRepos \in GithubReposInputs :
          runs' = [runs EXCEPT ![r] =
                      [idleRun EXCEPT
                          !.route = "/api/users/github/:username",
                          !.pc = "lookedUp",
                          !.data = Some(userData(githubUser, githubRepos)),
                          !.existing = getUserByGithubId(users, githubUser.id)]]
    /\ UNCHANGED <<issues, users, now, call, result, request, pending,
                   stats, tutorial, home>>

\* storage.updateUser or storage.createUser, then res.json(user)
ConnectWrite(r) ==
    /\ runs[r].route = "/api/users/github/:username"
    /\ runs[r].pc = "lookedUp"
    /\ LET existing == runs[r].existing
           id == IF existing # None THEN existing[1].id ELSE freshId(users)
       IN  /\ users' =
                 IF existing # None
                 THEN IF has(users, id)
                      THEN [users EXCEPT ![indexOf(users, id)] =
                               updateUser(@, runs[r].data[1])]
                      ELSE users
                 ELSE Append(users, createUser(runs[r].data[1], id))
           /\ runs' = [runs EXCEPT ![r] = [idleRun EXCEPT !.answer = getUser(users', id)]]
    /\ UNCHANGED <<issues, now, call, result, request, pending, stats, tutorial, home>>

NextConnect ==
    \/ \E r \in 1..MaxRuns : ConnectLookup(r)
    \/ \E r \in 1..MaxRuns : ConnectWrite(r)

SpecConnect == Init /\ [][NextConnect]_vars

----------------------------------------------------------------------------
(* GET /api/stats as a step, over a store that one sync run after the other *)
(* has filled: each run finds one issue GitHub has not shown before.        *)

\* a sync run that finds a new issue: issueData and storage.createIssue
SyncCreate ==
    /\ stats = None
    /\ Len(issues) < MaxStored
    /\ \E found \in {githubIssue(1, 2), githubIssue(2, 0)}, repoDetails \in RepoInputs :
          LET fresh == [found EXCEPT !.id = Len(issues) + 1, !.number = Len(issues) + 1]
          IN  /\ repoDetails.owner = found.owner
              /\ repoDetails.name = found.repoName
              /\ issues' = Append(issues, createIssue(issueData(fresh, repoDetails),
                                                      freshId(issues), now))
    /\ UNCHANGED <<users, now, call, result, request, pending, runs, stats,
                   tutorial, home>>

ApiStats ==
    /\ stats = None
    /\ stats' = Some([at |-> now, answer |-> apiStats(issues, now)])
    /\ UNCHANGED <<issues, users, now, call, result, request, pending, runs,
                   tutorial, home>>

\* res.json(...): the request is answered
StatsAnswered ==
    /\ stats # None
    /\ stats' = None
    /\ UNCHANGED <<issues, users, now, call, result, request, pending, runs,
                   tutorial, home>>

NextStats ==
    \/ Tick
    \/ SyncCreate
    \/ ApiStats
    \/ StatsAnswered

SpecStats == Init /\ [][NextStats]_vars

----------------------------------------------------------------------------
(* The Home page as steps: clicks in the Sidebar, on the sort selector and  *)
(* on the pagination, a user that connects, and answers of the server.      *)

\* the page after setFilters: changed filters are a new query key, for which
\* nothing is loaded yet
withFilters(h, filters, event) ==
    [h EXCEPT !.filters = filters,
              !.issuesData = IF filters = h.filters THEN @ ELSE None,
              !.recommendedData = IF filters = h.filters THEN @ ELSE None,
              !.event = event]

\* Sidebar.handleLanguageChange
ToggleLanguage ==
    /\ \E language \in {txtGo} :
          LET checked == ~arrayIncludes(home.sidebar.selectedLanguages, language)
              updated == toggled(home.sidebar.selectedLanguages, language, checked)
              sent    == updateFilters(home.sidebar, [languages |-> Some(updated)])
          IN  home' = [withFilters(home, handleFiltersChange(home.filters, sent),
                                   "languages")
                          EXCEPT !.sidebar.selectedLanguages = updated]
    /\ UNCHANGED <<issues, users, now, call, result, request, pending, runs, stats, tutorial>>

\* Sidebar.handleDifficultyChange
ToggleDifficulty ==
    /\ \E difficulty \in DifficultyChoices :
          LET checked == ~arrayIncludes(home.sidebar.selectedDifficulties, difficulty)
              updated == toggled(home.sidebar.selectedDifficulties, difficulty, checked)
              sent    == updateFilters(home.sidebar, [difficulty |-> Some(updated)])
          IN  home' = [withFilters(home, handleFiltersChange(home.filters, sent),
                                   "difficulty")
                          EXCEPT !.sidebar.selectedDifficulties = updated]
    /\ UNCHANGED <<issues, users, now, call, result, request, pending, runs, stats, tutorial>>

\* Sidebar.handleRepositorySizeChange
SelectSize ==
    /\ \E size \in SizeChoices \ {home.sidebar.repositorySize} :
          LET sent == updateFilters(home.sidebar, [repositorySize |-> Some(size)])
          IN  home' = [withFilters(home, handleFiltersChange(home.filters, sent),
                                   "repositorySize")
                          EXCEPT !.sidebar.repositorySize = size]
    /\ UNCHANGED <<issues, users, now, call, result, request, pending, runs, stats, tutorial>>

\* Sidebar.applyFilters
ApplyFilters ==
    /\ home' = withFilters(home,
                           handleFiltersChange(home.filters,
                                               updateFilters(home.sidebar, <<>>)),
                           "apply")
    /\ UNCHANGED <<issues, users, now, call, result, request, pending, runs, stats, tutorial>>

\* the sort selector
SelectSort ==
    /\ \E sortBy \in SortChoices \ {home.filters.sortBy[1]} :
          home' = withFilters(home, handleSortChange(home.filters, sortBy), "sort")
    /\ UNCHANGED <<issues, users, now, call, result, request, pending, runs, stats, tutorial>>

\* Previous
ClickPreviousPage ==
    /\ paginationShown(home)
    /\ currentPage(home) > 1
    /\ home' = withFilters(home, handlePageChange(home.filters, currentPage(home) - 1),
                           "page")
    /\ UNCHANGED <<issues, users, now, call, result, request, pending, runs, stats, tutorial>>

\* a numbered button
ClickPageButton ==
    /\ paginationShown(home)
    /\ \E page \in pageButtons(home) :
          home' = withFilters(home, handlePageChange(home.filters, page), "page")
    /\ UNCHANGED <<issues, users, now, call, result, request, pending, runs, stats, tutorial>>

\* Next
ClickNextPage ==
    /\ paginationShown(home)
    /\ currentPage(home) < totalPages(home)
    /\ home' = withFilters(home, handlePageChange(home.filters, currentPage(home) + 1),
                           "page")
    /\ UNCHANGED <<issues, users, now, call, result, request, pending, runs, stats, tutorial>>

\* createUserMutation succeeds: setCurrentUser(userData)
Connect ==
    /\ \E id \in 1..2 :
          /\ home.currentUser # Some(id)
          /\ home' = [home EXCEPT !.currentUser = Some(id), !.recommendedData = None,
                                  !.event = "connect"]
    /\ UNCHANGED <<issues, users, now, call, result, request, pending, runs, stats, tutorial>>

\* the query ['/api/issues', filters] gets its answer
IssuesLoaded ==
    /\ home.issuesData = None
    /\ \E total \in TotalInputs :
          home' = [home EXCEPT !.issuesData = Some([total |-> total]),
                               !.event = "issuesLoaded"]
    /\ UNCHANGED <<issues, users, now, call, result, request, pending, runs, stats, tutorial>>

\* the query ['/api/users', id, 'recommended-issues', filters] gets its answer
RecommendedLoaded ==
    /\ home.currentUser # None
    /\ home.recommendedData = None
    /\ \E total \in TotalInputs :
          home' = [home EXCEPT !.recommendedData = Some([total |-> total]),
                               !.event = "recommendedLoaded"]
    /\ UNCHANGED <<issues, users, now, call, result, request, pending, runs, stats, tutorial>>

\* after a sync the queries of '/api/issues' are invalidated and fetched again
IssuesRefetched ==
    /\ home.issuesData # None
    /\ \E total \in TotalInputs :
          home' = [home EXCEPT !.issuesData = Some([total |-> total]),
                               !.event = "issuesRefetched"]
    /\ UNCHANGED <<issues, users, now, call, result, request, pending, runs, stats, tutorial>>

NextHome ==
    \/ ToggleLanguage
    \/ ToggleDifficulty
    \/ SelectSize
    \/ ApplyFilters
    \/ SelectSort
    \/ ClickPreviousPage
    \/ ClickPageButton
    \/ ClickNextPage
    \/ Connect
    \/ IssuesLoaded
    \/ RecommendedLoaded
    \/ IssuesRefetched

SpecHome == Init /\ [][NextHome]_vars

----------------------------------------------------------------------------
(* What the claims speak of, stated from their text and not from the code *)

Range(seq) == {seq[k] : k \in 1..Len(seq)}

Ids(seq) == {seq[k].id : k \in 1..Len(seq)}

NoDuplicateIds(seq) == \A j, k \in 1..Len(seq) : seq[j].id = seq[k].id => j = k

IsAnonymous == call.op = "getIssues"

IsPersonalized ==
    /\ call.op = "getRecommendedIssuesForUser"
    /\ \E i \in 1..Len(users) : users[i].id = call.userId

CallUser == users[CHOOSE i \in 1..Len(users) : users[i].id = call.userId]

\* a search is active when something is left of it after trimming
SearchActive(f) ==
    f.search # None /\ \E k \in 1..Len(f.search[1]) : f.search[1][k] \notin WhiteSpace

SearchFields(issue) ==
    {issue.title, issue.repositoryName, issue.repositoryOwner}
    \cup (IF issue.body = None THEN {} ELSE {issue.body[1]})
    \cup (IF issue.language = None THEN {} ELSE {issue.language[1]})
    \cup Range(issue.labels)

SearchOk(issue, f) ==
    SearchActive(f) =>
        \E field \in SearchFields(issue) :
            includes(toLowerCase(field), toLowerCase(trim(f.search[1])))

LanguageOk(issue, f) ==
    (f.languages # None /\ f.languages[1] # <<>>) =>
        (issue.language # None /\ issue.language[1] \in Range(f.languages[1]))

DifficultyOk(issue, f) ==
    (f.difficulty # None /\ f.difficulty[1] # <<>>) =>
        (issue.difficulty # None /\ issue.difficulty[1] \in Range(f.difficulty[1]))

StarsOf(issue) == IF issue.repositoryStars = None THEN 0 ELSE issue.repositoryStars[1]

CommentsOf(issue) == IF issue.comments = None THEN 0 ELSE issue.comments[1]

SizeOk(issue, f) ==
    /\ f.repositorySize = Some("small") => StarsOf(issue) < 100
    /\ f.repositorySize = Some("medium") => (100 <= StarsOf(issue) /\ StarsOf(issue) < 1000)
    /\ f.repositorySize = Some("large") => 1000 <= StarsOf(issue)

\* the conjunction of the active predicates
PassesFilters(issue, f) ==
    SearchOk(issue, f) /\ LanguageOk(issue, f) /\ DifficultyOk(issue, f) /\ SizeOk(issue, f)

\* the narrowing as the code applies it: only without a search, only for a
\* user that has languages
PassesAffinity(issue, user, f) ==
    (~SearchActive(f) /\ user.topLanguages # <<>>) =>
        (issue.language = None \/ issue.language[1] \in Range(user.topLanguages))

AnonymousSurvivors(f) == {i \in 1..Len(issues) : PassesFilters(issues[i], f)}

PersonalizedSurvivors(user, f) ==
    {i \in 1..Len(issues) : PassesAffinity(issues[i], user, f) /\ PassesFilters(issues[i], f)}

\* the same filters with everything on one page
OnePage(f) == [f EXCEPT !.page = None, !.limit = Some(100)]

PageOf(f) == IF f.page = None THEN 1 ELSE f.page[1]

LimitOf(f) == IF f.limit = None THEN 10 ELSE f.limit[1]

----------------------------------------------------------------------------
(* C1: getIssues returns exactly the issues that satisfy every active       *)
(* predicate (search, languages, difficulty, repository size): total counts *)
(* them, every returned item is one of them, and with everything on one     *)
(* page none of them is missing.                                            *)

C1_FilterConjunction ==
    IsAnonymous =>
        LET f == call.filters
            S == AnonymousSurvivors(f)
        IN  /\ result.total = Cardinality(S)
            /\ \A k \in 1..Len(result.issues) : \E i \in S : result.issues[k] = issues[i]
            /\ Range(getIssues(issues, OnePage(f)).issues) = {issues[i] : i \in S}

C1_Witness ==
    /\ IsAnonymous
    /\ SearchActive(call.filters)
    /\ call.filters.difficulty # None
    /\ result.total >= 1
    /\ result.total < Len(issues)
    /\ Len(result.issues) = result.total

(* C2: in both entry points total is the number of survivors of the filters *)
(* (and of the narrowing, in personalized mode), a number that page and     *)
(* limit do not enter; it is not the length of the returned page.           *)

C2_TotalBeforePagination ==
    /\ IsAnonymous =>
          result.total = Cardinality(AnonymousSurvivors(call.filters))
    /\ IsPersonalized =>
          result.total = Cardinality(PersonalizedSurvivors(CallUser, call.filters))

C2_Witness ==
    /\ IsPersonalized
    /\ call.filters.limit = Some(1)
    /\ Len(result.issues) = 1
    /\ result.total = 2
    /\ Len(issues) = 3

(* C3: the pages 1..ceil(total/limit) of one query, put one after another, *)
(* are the full filtered and sorted sequence: every survivor once, none     *)
(* missing, in both entry points.                                           *)

\* the query of the call at hand, asked again with filters f at time t
QueryAt(f, t) ==
    IF IsAnonymous THEN getIssues(issues, f)
    ELSE getRecommendedIssuesForUser(issues, users, call.userId, f, t)

PageCount(total, limit) == (total + limit - 1) \div limit

\* page k is fetched at time when[k]
PagesConcatenated(f, n, when) ==
    LET cat[k \in 0..n] ==
            IF k = 0 THEN <<>>
            ELSE cat[k - 1] \o QueryAt([f EXCEPT !.page = Some(k)], when[k]).issues
    IN  cat[n]

SurvivorIds ==
    IF IsAnonymous THEN {issues[i].id : i \in AnonymousSurvivors(call.filters)}
    ELSE {issues[i].id : i \in PersonalizedSurvivors(CallUser, call.filters)}

\* as claimed: whenever the pages are fetched
C3_PagesCoverWheneverFetched ==
    (IsAnonymous \/ IsPersonalized) =>
        LET f == call.filters
            n == PageCount(result.total, LimitOf(f))
        IN  \A when \in [1..n -> {call.at, call.at + TickMs}] :
               LET all == PagesConcatenated(f, n, when)
               IN  NoDuplicateIds(all) /\ Ids(all) = SurvivorIds

\* amended: all pages are evaluated at the same time
C3_PagesCoverAtOneTime ==
    (IsAnonymous \/ IsPersonalized) =>
        LET f     == call.filters
            n     == PageCount(result.total, LimitOf(f))
            all   == PagesConcatenated(f, n, [k \in 1..n |-> call.at])
            start == (PageOf(f) - 1) * LimitOf(f)
        IN  /\ all = QueryAt(OnePage(f), call.at).issues
            /\ NoDuplicateIds(all)
            /\ Ids(all) = SurvivorIds
            /\ result.issues =
                  [k \in 1..Len(result.issues) |-> all[start + k]]

C3_Witness ==
    /\ IsPersonalized
    /\ call.filters.limit = Some(1)
    /\ call.filters.page = Some(2)
    /\ result.total = 3
    /\ Len(result.issues) = 1

(* C4: the page holds min(limit, max(0, total - (page-1)*limit)) items: the *)
(* slice starts at (page-1)*limit, never holds more than limit items, and a *)
(* start behind the end gives no items and the same total.                  *)

C4_PageLength ==
    (IsAnonymous \/ IsPersonalized) =>
        LET f     == call.filters
            rest  == result.total - (PageOf(f) - 1) * LimitOf(f)
            avail == IF rest < 0 THEN 0 ELSE rest
        IN  Len(result.issues) = IF LimitOf(f) < avail THEN LimitOf(f) ELSE avail

C4_Witness ==
    /\ IsAnonymous
    /\ result.total = 2
    /\ call.filters.page = Some(2)
    /\ call.filters.limit = Some(2)
    /\ result.issues = <<>>

(* C5: without a search, an issue survives the narrowing of                 *)
(* getRecommendedIssuesForUser iff it has no language or its language is    *)
(* one of the user's topLanguages, and the explicit filters apply on top.   *)

ExplicitOk(issue, f) == LanguageOk(issue, f) /\ DifficultyOk(issue, f) /\ SizeOk(issue, f)

InTopLanguages(issue, user) ==
    issue.language = None \/ issue.language[1] \in Range(user.topLanguages)

\* as claimed: for every profile, the empty topLanguages included
C5_NarrowingForEveryProfile ==
    (IsPersonalized /\ ~SearchActive(call.filters)) =>
        LET f == call.filters
            S == {i \in 1..Len(issues) :
                     InTopLanguages(issues[i], CallUser) /\ ExplicitOk(issues[i], f)}
        IN  /\ result.total = Cardinality(S)
            /\ Ids(QueryAt(OnePage(f), call.at).issues) = {issues[i].id : i \in S}

\* amended: the narrowing applies when topLanguages is not empty; a user
\* without languages gets no narrowing
C5_NarrowingForNonEmptyProfile ==
    (IsPersonalized /\ ~SearchActive(call.filters)) =>
        LET f == call.filters
            S == {i \in 1..Len(issues) :
                     /\ CallUser.topLanguages = <<>> \/ InTopLanguages(issues[i], CallUser)
                     /\ ExplicitOk(issues[i], f)}
        IN  /\ result.total = Cardinality(S)
            /\ Ids(QueryAt(OnePage(f), call.at).issues) = {issues[i].id : i \in S}

C5_Witness ==
    /\ IsPersonalized
    /\ ~SearchActive(call.filters)
    /\ CallUser.topLanguages # <<>>
    /\ call.filters.difficulty # None
    /\ Len(issues) = 3
    /\ result.total = 1

(* C6: with a search term, the user's topLanguages restrict nothing: the   *)
(* surviving ids and the total are those of getIssues with the same filters *)

C6_SearchOverridesAffinity ==
    (IsPersonalized /\ SearchActive(call.filters)) =>
        LET f == call.filters
        IN  /\ result.total = getIssues(issues, f).total
            /\ Ids(QueryAt(OnePage(f), call.at).issues)
                  = Ids(getIssues(issues, OnePage(f)).issues)

C6_Witness ==
    /\ IsPersonalized
    /\ SearchActive(call.filters)
    /\ CallUser.topLanguages # <<>>
    /\ \E k \in 1..Len(result.issues) :
          /\ result.issues[k].language # None
          /\ result.issues[k].language[1] \notin Range(CallUser.topLanguages)

(* C7: getRecommendedIssuesForUser with a userId that is not in the user   *)
(* store returns no items and total 0, whatever the filters and the issues, *)
(* and leaves the store as it was.                                          *)

C7_UnknownUserEmptyResult ==
    [][(/\ call'.op = "getRecommendedIssuesForUser"
        /\ call.op = "none"
        /\ \A i \in 1..Len(users) : users[i].id # call'.userId)
       => (/\ result' = [issues |-> <<>>, total |-> 0]
           /\ issues' = issues
           /\ users' = users)]_vars

C7_Witness ==
    /\ call.op = "getRecommendedIssuesForUser"
    /\ users # <<>>
    /\ \A i \in 1..Len(users) : users[i].id # call.userId
    /\ Len(issues) = 3
    /\ call.filters.search = None
    /\ result.total = 0

(* C8: the full filtered sequence of getIssues is ordered by sortBy: stars, *)
(* comments (absent counts as 0), recommended first for match, and          *)
(* updatedAt for recent and when sortBy is absent, all non-increasing.      *)

SortKey(issue, sortBy) ==
    CASE sortBy = Some("stars") -> StarsOf(issue)
      [] sortBy = Some("comments") -> CommentsOf(issue)
      [] sortBy = Some("match") -> IF issue.isRecommended = Some(TRUE) THEN 1 ELSE 0
      [] sortBy = Some("recent") -> issue.updatedAt
      [] sortBy = None -> issue.updatedAt

NonIncreasing(seq, Key(_)) ==
    \A j, k \in 1..Len(seq) : j < k => Key(seq[j]) >= Key(seq[k])

C8_AnonymousOrder ==
    IsAnonymous =>
        LET f == call.filters
        IN  /\ NonIncreasing(getIssues(issues, OnePage(f)).issues,
                             LAMBDA issue : SortKey(issue, f.sortBy))
            /\ NonIncreasing(result.issues, LAMBDA issue : SortKey(issue, f.sortBy))

C8_Witness ==
    /\ IsAnonymous
    /\ call.filters.sortBy = Some("comments")
    /\ Len(result.issues) = 2
    /\ result.issues[1].id > result.issues[2].id
    /\ result.issues[2].comments = None

(* C9: in personalized mode the items are ordered by the requested sortBy: *)
(* stars, comments, updatedAt for recent and when absent, and the           *)
(* recommendation score only for match.                                     *)

IsBeginnerLabel(label) ==
    toLowerCase(label) \in {txtGoodFirstIssue, txtBeginnerFriendly, txtHelpWanted}

ScoreOf(issue, user, t) ==
    (IF issue.language # None /\ issue.language[1] \in Range(user.topLanguages)
     THEN 10 ELSE 0)
    + (IF \E label \in Range(issue.labels) : IsBeginnerLabel(label) THEN 15 ELSE 0)
    + (IF StarsOf(issue) > 100 THEN 5 ELSE 0)
    + (IF issue.updatedAt > t - 7 * 24 * 60 * 60 * 1000 THEN 3 ELSE 0)

C9_PersonalizedOrderBySortBy ==
    IsPersonalized =>
        LET f == call.filters
        IN  IF f.sortBy = Some("match")
            THEN NonIncreasing(result.issues,
                               LAMBDA issue : ScoreOf(issue, CallUser, call.at))
            ELSE NonIncreasing(result.issues, LAMBDA issue : SortKey(issue, f.sortBy))

(* C10: the sort comes before the pagination, in both entry points: every  *)
(* item of page p ranks at or before every survivor of a later page, under  *)
(* the order the entry point sorts by.                                      *)

OrderKey(issue) ==
    IF IsAnonymous THEN SortKey(issue, call.filters.sortBy)
    ELSE ScoreOf(issue, CallUser, call.at)

C10_SortBeforePagination ==
    (IsAnonymous \/ IsPersonalized) =>
        LET f       == call.filters
            before  == PageOf(f) - 1
            earlier == Ids(PagesConcatenated(f, before, [k \in 1..before |-> call.at]))
            later   == SurvivorIds \ (earlier \cup Ids(result.issues))
        IN  \A k \in 1..Len(result.issues), i \in 1..Len(issues) :
               issues[i].id \in later => OrderKey(result.issues[k]) >= OrderKey(issues[i])

C10_Witness ==
    /\ IsPersonalized
    /\ call.filters.limit = Some(1)
    /\ call.filters.page = None
    /\ result.total = 3
    /\ result.issues[1].id = 3

(* C11: the recommendation score of an issue is 10 for a language of the   *)
(* user, plus 15 for a beginner label, plus 5 for more than 100 stars, plus *)
(* 3 for an update strictly later than a week before the evaluation; it is  *)
(* a number of 0..33 and the other issues of the store do not enter it.     *)

C11_ScoreFormula ==
    IsPersonalized =>
        /\ \A i \in 1..Len(issues) :
              LET score == calculateRecommendationScore(issues[i], CallUser, call.at)
              IN  /\ score = ScoreOf(issues[i], CallUser, call.at)
                  /\ score \in 0..33
        /\ \A k \in 1..Len(result.issues) :
              calculateRecommendationScore(result.issues[k], CallUser, call.at)
                 = ScoreOf(result.issues[k], CallUser, call.at)

C11_Witness ==
    /\ IsPersonalized
    /\ CallUser.topLanguages # <<>>
    /\ \E k \in 1..Len(result.issues) :
          /\ StarsOf(result.issues[k]) = 100
          /\ result.issues[k].updatedAt = call.at - 7 * 24 * 60 * 60 * 1000
          /\ ScoreOf(result.issues[k], CallUser, call.at) = 0
    /\ \E k \in 1..Len(result.issues) :
          ScoreOf(result.issues[k], CallUser, call.at) = 13

(* C12: of two issues that differ in nothing but the language, the one     *)
(* whose language is among the user's topLanguages scores, at the same      *)
(* time, at least as much as the other, and exactly 10 more when the        *)
(* other's language is not among them.                                      *)

\* the languages an otherwise identical issue may have
OtherLanguages == {None, Some(txtGo), Some(txtRust)}

C12_LanguageMonotonicity ==
    IsPersonalized =>
        \A i \in 1..Len(issues), mine \in Range(CallUser.topLanguages),
           other \in OtherLanguages :
            LET first   == [issues[i] EXCEPT !.language = Some(mine)]
                second  == [issues[i] EXCEPT !.language = other]
                scoreA  == calculateRecommendationScore(first, CallUser, call.at)
                scoreB  == calculateRecommendationScore(second, CallUser, call.at)
                inTop   == other # None /\ other[1] \in Range(CallUser.topLanguages)
            IN  /\ scoreA >= scoreB
                /\ ~inTop => scoreA = scoreB + 10
                /\ inTop => scoreA = scoreB

C12_Witness ==
    /\ IsPersonalized
    /\ CallUser.topLanguages = <<txtGo>>
    /\ SearchActive(call.filters)
    /\ \E j \in 1..Len(issues), k \in 1..Len(result.issues) :
          /\ issues[j].language = Some(txtGo)
          /\ result.issues[k].language = Some(txtRust)
          /\ calculateRecommendationScore(
                 [result.issues[k] EXCEPT !.language = Some(txtGo)], CallUser, call.at)
             = calculateRecommendationScore(result.issues[k], CallUser, call.at) + 10

(* C13: every item returned by getRecommendedIssuesForUser is marked        *)
(* isRecommended exactly when its language is among the user's topLanguages *)
(* or one of its labels, lower-cased, is a beginner label; the mark is      *)
(* computed anew for the item, whatever the flag stored with the issue, its *)
(* stars or its age, and the item is otherwise the stored issue.            *)

Stored(id) == issues[CHOOSE i \in 1..Len(issues) : issues[i].id = id]

ShouldBeRecommended(issue, user) ==
    \/ issue.language # None /\ issue.language[1] \in Range(user.topLanguages)
    \/ \E label \in Range(issue.labels) : IsBeginnerLabel(label)

C13_RecommendedMark ==
    IsPersonalized =>
        \A k \in 1..Len(result.issues) :
            LET item == result.issues[k]
            IN  /\ item.isRecommended = Some(ShouldBeRecommended(item, CallUser))
                /\ item = [Stored(item.id) EXCEPT !.isRecommended = item.isRecommended]

C13_Witness ==
    /\ IsPersonalized
    /\ \E k \in 1..Len(result.issues) :
          /\ result.issues[k].isRecommended = Some(TRUE)
          /\ Stored(result.issues[k].id).isRecommended = Some(FALSE)
    /\ \E k \in 1..Len(result.issues) :
          /\ result.issues[k].isRecommended = Some(FALSE)
          /\ Stored(result.issues[k].id).isRecommended = Some(TRUE)
          /\ StarsOf(result.issues[k]) < 100
    /\ \E k \in 1..Len(result.issues) :
          /\ result.issues[k].isRecommended = Some(FALSE)
          /\ Stored(result.issues[k].id).isRecommended = None

(* C14: a query asked again with the same store, the same user and the     *)
(* same filters gives the same items in the same order and the same total.  *)

\* the call at hand, asked again at time t
AskedAgain(t) ==
    IF IsAnonymous THEN getIssues(issues, call.filters)
    ELSE getRecommendedIssuesForUser(issues, users, call.userId, call.filters, t)

C15_QueryLeavesStore ==
    [][call'.op \in {"getIssues", "getRecommendedIssuesForUser"}
       => (issues' = issues /\ users' = users)]_vars

C15_Witness ==
    /\ IsPersonalized
    /\ call.filters.sortBy = Some("stars")
    /\ Len(result.issues) = 2
    /\ result.issues[1].id > result.issues[2].id
    /\ \E k \in 1..2 : result.issues[k].isRecommended # Stored(result.issues[k].id).isRecommended

(* C16: the repository sizes are half-open buckets of the stars, absent     *)
(* stars counting as 0: small below 100, medium from 100 and below 1000,    *)
(* large from 1000, any for every issue; every issue is in exactly one of   *)
(* small, medium and large, and both entry points filter by them alike.     *)

StarsInputs == {None, Some(0), Some(99), Some(100), Some(999), Some(1000)}

BucketOf(issue) ==
    IF StarsOf(issue) < 100 THEN "small"
    ELSE IF StarsOf(issue) < 1000 THEN "medium" ELSE "large"

\* what the filter of the code lets through for the size b
PassesSize(issue, b) ==
    LET f == [noFilters EXCEPT !.repositorySize = Some(b)]
    IN  sizeGiven(f) => sizeMatch(issue, f)

C16_SizeBuckets ==
    /\ \A i \in 1..Len(issues) :
       \A stars \in StarsInputs \cup {issues[i].repositoryStars} :
          LET issue == [issues[i] EXCEPT !.repositoryStars = stars]
          IN  /\ \A b \in {"small", "medium", "large"} :
                    PassesSize(issue, b) <=> (b = BucketOf(issue))
              /\ PassesSize(issue, "any")
              /\ Cardinality({b \in {"small", "medium", "large"} : PassesSize(issue, b)}) = 1
    /\ ((IsAnonymous \/ IsPersonalized) /\ call.filters.repositorySize # None) =>
          LET f    == call.filters
              size == f.repositorySize[1]
              rest == [f EXCEPT !.repositorySize = None]
              in   == IF IsAnonymous THEN AnonymousSurvivors(rest)
                      ELSE PersonalizedSurvivors(CallUser, rest)
          IN  Ids(QueryAt(OnePage(f), call.at).issues)
                 = {issues[i].id : i \in {j \in in : size = "any" \/ size = BucketOf(issues[j])}}

C16_Witness ==
    /\ IsPersonalized
    /\ call.filters.repositorySize = Some("medium")
    /\ Len(issues) = 3
    /\ result.total = 1
    /\ StarsOf(result.issues[1]) = 100
    /\ \E i \in 1..3 : StarsOf(issues[i]) = 1000

(* C17: filters.languages and filters.difficulty let every issue through    *)
(* when the list is absent or empty; a list with members lets through       *)
(* exactly the issues whose field is present and one of the members, so an  *)
(* issue without language, or without difficulty, is then excluded.         *)

Admits(list, field) ==
    \/ list = None
    \/ list[1] = <<>>
    \/ field # None /\ field[1] \in Range(list[1])

SurvivorsOf(f) ==
    IF IsAnonymous THEN AnonymousSurvivors(f) ELSE PersonalizedSurvivors(CallUser, f)

C17_SetValuedConstraints ==
    (IsAnonymous \/ IsPersonalized) =>
        LET f     == call.filters
            found == Ids(QueryAt(OnePage(f), call.at).issues)
        IN  /\ found = {issues[i].id :
                          i \in {j \in SurvivorsOf([f EXCEPT !.languages = None]) :
                                    Admits(f.languages, issues[j].language)}}
            /\ found = {issues[i].id :
                          i \in {j \in SurvivorsOf([f EXCEPT !.difficulty = None]) :
                                    Admits(f.difficulty, issues[j].difficulty)}}

C17_Witness ==
    /\ IsAnonymous
    /\ call.filters.languages = Some(<<>>)
    /\ call.filters.difficulty = Some(<<>>)
    /\ result.total = 3
    /\ \E i \in 1..3 : issues[i].language = None /\ issues[i].difficulty = None

(* C18: with a search term that is not empty after trimming, an issue       *)
(* passes the search exactly when the lower-cased term occurs in the        *)
(* lower-cased title, body, repository name, repository owner, language or  *)
(* one of the labels, an absent body or language simply not matching; an    *)
(* absent, empty or blank search excludes no issue.                         *)

IsSubstring(t, s) ==
    \E offset \in 0..(Len(s) - Len(t)) : \A j \in 1..Len(t) : s[offset + j] = t[j]

FoundIn(issue, term) ==
    \/ IsSubstring(term, toLowerCase(issue.title))
    \/ issue.body # None /\ IsSubstring(term, toLowerCase(issue.body[1]))
    \/ IsSubstring(term, toLowerCase(issue.repositoryName))
    \/ IsSubstring(term, toLowerCase(issue.repositoryOwner))
    \/ issue.language # None /\ IsSubstring(term, toLowerCase(issue.language[1]))
    \/ \E label \in Range(issue.labels) : IsSubstring(term, toLowerCase(label))

\* the issues the filters other than the search let through
OtherFiltersOk ==
    {i \in 1..Len(issues) :
        /\ LanguageOk(issues[i], call.filters)
        /\ DifficultyOk(issues[i], call.filters)
        /\ SizeOk(issues[i], call.filters)}

C18_SearchPredicate ==
    (IsAnonymous \/ IsPersonalized) =>
        LET f     == call.filters
            found == Ids(QueryAt(OnePage(f), call.at).issues)
        IN  IF SearchActive(f)
            THEN found = {issues[i].id :
                            i \in {j \in OtherFiltersOk :
                                      FoundIn(issues[j], toLowerCase(trim(f.search[1])))}}
            ELSE found = {issues[i].id : i \in SurvivorsOf([f EXCEPT !.search = None])}

C18_Witness ==
    /\ IsPersonalized
    /\ call.filters.search = Some(txtTypo)
    /\ Len(issues) = 3
    /\ result.total = 1
    /\ result.issues[1].body = Some(txtATypo)
    /\ result.issues[1].language = None
    /\ \E i \in 1..3 : issues[i].body = None

(* C19: a request to GET /api/issues or to GET                              *)
(* /api/users/:userId/recommended-issues whose limit parses outside 1..100, *)
(* whose page parses below 1 or to no number, or whose repositorySize or    *)
(* sortBy is not of its enumeration, is answered with status 400 without a  *)
(* call of getIssues or getRecommendedIssuesForUser; the filters of every   *)
(* call the routes make are accepted by issueFiltersSchema.                 *)

\* a parameter the handler parses: a string that is not empty
Given(o) == o # None /\ o[1] # <<>>

InvalidRequest(query) ==
    \/ /\ Given(query.limit)
       /\ ~parseInt(query.limit[1]).isNaN
       /\ parseInt(query.limit[1]).value \notin 1..100
    \/ /\ Given(query.page)
       /\ (parseInt(query.page[1]).isNaN \/ parseInt(query.page[1]).value < 1)
    \/ /\ query.repositorySize # None
       /\ query.repositorySize[1] \notin {"any", "small", "medium", "large"}
    \/ /\ query.sortBy # None
       /\ query.sortBy[1] \notin {"recent", "stars", "match", "comments"}

AcceptedBySchema(f) ==
    /\ f.page = None \/ (f.page[1] \in Int /\ f.page[1] >= 1)
    /\ f.limit = None \/ f.limit[1] \in 1..100
    /\ f.repositorySize = None \/ f.repositorySize[1] \in {"any", "small", "medium", "large"}
    /\ f.sortBy = None \/ f.sortBy[1] \in {"recent", "stars", "match", "comments"}

C19_InvalidFiltersRejected ==
    request.route # "none" =>
        /\ request.status \in {200, 400}
        /\ InvalidRequest(request.query) => request.status = 400
        /\ request.status = 400 => (call = noCall /\ result = noResult)
        /\ request.status = 200 =>
              /\ call.op = IF request.route = "/api/issues" THEN "getIssues"
                           ELSE "getRecommendedIssuesForUser"
              /\ call.userId = request.userId
              /\ AcceptedBySchema(call.filters)

C19_Witness ==
    /\ request.route = "/api/users/:userId/recommended-issues"
    /\ request.query.page = Some(<<"2">>)
    /\ request.query.limit = Some(<<"1","0","1">>)
    /\ request.status = 400
    /\ call = noCall
    /\ Len(issues) = 3
    /\ \E i \in 1..Len(users) : users[i].id = request.userId

(* C20: the items and the total of a query are those of the issue store at  *)
(* one instant, also when createIssue and updateUser of other handlers are  *)
(* carried out while getRecommendedIssuesForUser waits at its await: never  *)
(* a part from the issues before a write and a part from the issues after.  *)

\* the query of the call at hand over the issues as they were at one instant,
\* for the user the method was given
OverIssues(issueMap) ==
    LET given == IF pending.user = None THEN <<>> ELSE <<pending.user[1]>>
    IN  getRecommendedIssuesForUser(issueMap, given, call.userId, call.filters, call.at)

----------------------------------------------------------------------------
(* C21: ties in the sort key are broken by insertion order, in both entry  *)
(* points: of two returned issues with equal key (the sortBy key for        *)
(* getIssues, the recommendation score for getRecommendedIssuesForUser) the *)
(* one that was first inserted earlier comes first, also after updateIssue  *)
(* has rewritten one of them.  Ids are handed out in the order of the first *)
(* insertion, so the earlier issue is the one with the smaller id.          *)

InsertedBefore(a, b) == a.id < b.id

C21_TiesInInsertionOrder ==
    (IsAnonymous \/ IsPersonalized) =>
        \A j, k \in 1..Len(result.issues) :
            (j < k /\ OrderKey(result.issues[j]) = OrderKey(result.issues[k]))
                => InsertedBefore(result.issues[j], result.issues[k])

\* a tie between two issues of which the earlier one was updated afterwards
C21_Witness ==
    /\ IsAnonymous
    /\ call.filters.sortBy = Some("comments")
    /\ Len(result.issues) = 2
    /\ OrderKey(result.issues[1]) = OrderKey(result.issues[2])
    /\ result.issues[1].updatedAt > result.issues[2].updatedAt

----------------------------------------------------------------------------
(* C22: after any sequence of sync runs every stored issue, all of them     *)
(* written by POST /api/sync-issues, has a difficulty, and it is one of     *)
(* beginner, intermediate, advanced.                                        *)

C22_SyncedDifficulty ==
    \A i \in 1..Len(issues) :
        /\ issues[i].difficulty # None
        /\ issues[i].difficulty[1] \in {"beginner", "intermediate", "advanced"}

\* beginner is stored for an issue that has no label, next to another value
C22_Witness ==
    /\ Len(issues) = 2
    /\ \E i \in 1..Len(issues) :
          issues[i].labels = <<>> /\ issues[i].difficulty = Some("beginner")
    /\ \E i \in 1..Len(issues) : issues[i].difficulty = Some("intermediate")

(* C24: after any number of sync runs, overlapping ones included, no two    *)
(* stored issues have the same githubId.                                    *)

C24_OneIssuePerGithubId ==
    \A i, j \in 1..Len(issues) : issues[i].githubId = issues[j].githubId => i = j

(* C23: the tutorial is a walk over its 6 steps: currentStep stays within   *)
(* 0..5; Next goes from step i to i+1 when i < 5 and calls onComplete at    *)
(* step 5, leaving currentStep at 5; Previous goes from i to i-1 when       *)
(* i > 0 and does nothing at 0; Skip is offered at step 0 only and calls    *)
(* onComplete without changing currentStep.                                 *)

C23_TutorialWalk ==
    [][/\ tutorial'.currentStep \in 0..5
       /\ tutorial'.event = "next" =>
             IF tutorial.currentStep < 5
             THEN /\ tutorial'.currentStep = tutorial.currentStep + 1
                  /\ tutorial'.called = "none"
             ELSE /\ tutorial'.currentStep = 5
                  /\ tutorial'.called = "onComplete"
       /\ tutorial'.event = "previous" =>
             /\ tutorial.currentStep > 0
             /\ tutorial'.currentStep = tutorial.currentStep - 1
             /\ tutorial'.called = "none"
       /\ tutorial.currentStep = 0 => handlePrevious(tutorial) = tutorial
       /\ tutorial'.event = "skip" =>
             /\ tutorial.currentStep = 0
             /\ tutorial'.currentStep = 0
             /\ tutorial'.called = "onComplete"]_vars

\* Next was clicked at the last step
C23_Witness ==
    /\ tutorial.event = "next"
    /\ tutorial.called = "onComplete"
    /\ tutorial.currentStep = 5

(* C30: the flag gates the tutorial across sessions: the timer of a mount   *)
(* shows the tutorial only when the mount found no flag in localStorage;    *)
(* completing sets the flag and hides the tutorial; the flag then stays     *)
(* until resetOnboarding removes it and shows the tutorial again, so no     *)
(* later mount shows it by itself; closing the dialog hides it and leaves   *)
(* the flag as it is.                                                       *)

C25_OneUserPerGithubId ==
    \A i, j \in 1..Len(users) : users[i].githubId = users[j].githubId => i = j

(* C26: for the same store, the same existing user and the same filters the *)
(* personalized result is a restriction of the anonymous one: every issue   *)
(* that survives in getRecommendedIssuesForUser survives in getIssues, and  *)
(* the personalized total is not greater than the anonymous total.          *)

C26_PersonalizedWithinAnonymous ==
    IsPersonalized =>
        LET f         == call.filters
            anonymous == getIssues(issues, f)
            allOfThem == getIssues(issues, OnePage(f))
            mine      == getRecommendedIssuesForUser(issues, users, call.userId,
                                                     OnePage(f), call.at)
        IN  /\ Ids(mine.issues) \subseteq Ids(allOfThem.issues)
            /\ Ids(result.issues) \subseteq Ids(allOfThem.issues)
            /\ result.total <= anonymous.total

\* a filter is set, the user's languages narrow the result further
C26_Witness ==
    /\ IsPersonalized
    /\ call.filters.difficulty # None
    /\ result.total = 1
    /\ getIssues(issues, call.filters).total = 2

(* C29: GET /api/stats counts over one default page: totalIssues is the     *)
(* number of all stored issues; recommendedIssues, newIssues, the language  *)
(* counts and difficultyCounts are those of the 10 most recently updated    *)
(* issues (of equally recent ones the earlier stored), so recommendedIssues *)
(* and newIssues are at most min(10, totalIssues) and the difficulty counts *)
(* sum to at most 10.                                                       *)

\* fewer than 10 issues come before issue i in recency order
OnStatsPage(i) ==
    Cardinality({j \in 1..Len(issues) :
                    \/ issues[j].updatedAt > issues[i].updatedAt
                    \/ issues[j].updatedAt = issues[i].updatedAt /\ j < i}) < 10

SumOfCounts(entries) ==
    LET sum[k \in 0..Len(entries)] ==
            IF k = 0 THEN 0 ELSE sum[k - 1] + entries[k].count
    IN  sum[Len(entries)]

C29_StatsOverOnePage ==
    stats # None =>
        LET s     == stats[1].answer
            page  == {i \in 1..Len(issues) : OnStatsPage(i)}
            atMost == IF Len(issues) < 10 THEN Len(issues) ELSE 10
        IN  /\ s.totalIssues = Len(issues)
            /\ s.recommendedIssues =
                  Cardinality({i \in page : issues[i].isRecommended = Some(TRUE)})
            /\ s.newIssues =
                  Cardinality({i \in page :
                      issues[i].updatedAt > stats[1].at - 7 * 24 * 60 * 60 * 1000})
            /\ \A e \in Range(s.topLanguages) :
                  e.count = Cardinality({i \in page : issues[i].language = Some(e.name)})
            /\ \A e \in Range(s.difficultyCounts) :
                  e.count = Cardinality({i \in page : issues[i].difficulty = Some(e.name)})
            /\ SumOfCounts(s.difficultyCounts) =
                  Cardinality({i \in page : issues[i].difficulty # None})
            /\ s.recommendedIssues <= atMost
            /\ s.newIssues <= atMost
            /\ SumOfCounts(s.difficultyCounts) <= 10

\* eleven issues are stored, all recommended, and ten of them are counted
C29_Witness ==
    /\ stats # None
    /\ stats[1].answer.totalIssues = 11
    /\ \A i \in 1..Len(issues) : issues[i].isRecommended = Some(TRUE)
    /\ stats[1].answer.recommendedIssues = 10
    /\ stats[1].answer.newIssues < 10

(* C27: in the Home page the current page is a page of the displayed data:  *)
(* whenever data is displayed, filters.page is at least 1 and at most       *)
(* max(1, ceil(displayData.total / limit)).                                 *)

C27_PageWithinPages ==
    displayData(home) # None =>
        LET page  == home.filters.page[1]
            pages == (displayData(home)[1].total + home.filters.limit[1] - 1)
                     \div home.filters.limit[1]
        IN  /\ page >= 1
            /\ page <= (IF pages > 1 THEN pages ELSE 1)

(* C28: in the Home page every change in the Sidebar and every change of    *)
(* the sort order sets filters.page to 1 and keeps the filter fields it     *)
(* does not change: a Sidebar change keeps sortBy, limit and search, and of *)
(* languages, difficulty and repositorySize, which the Sidebar sends with   *)
(* every change, the two it did not touch keep their meaning (an absent     *)
(* list is the empty list, an absent size is any); a sort change keeps      *)
(* everything but sortBy and page; a page change keeps everything but page. *)

ListOf(o) == IF o = None THEN <<>> ELSE o[1]

SizeOf(o) == IF o = None THEN "any" ELSE o[1]

C28_FilterFrame ==
    [][LET f == home.filters
           g == home'.filters
           e == home'.event
       IN  /\ e \in {"languages", "difficulty", "repositorySize", "apply", "sort"} =>
                 g.page = Some(1)
           /\ e \in {"languages", "difficulty", "repositorySize", "apply"} =>
                 /\ g.sortBy = f.sortBy
                 /\ g.limit = f.limit
                 /\ g.search = f.search
           /\ e \in {"difficulty", "repositorySize", "apply"} =>
                 ListOf(g.languages) = ListOf(f.languages)
           /\ e \in {"languages", "repositorySize", "apply"} =>
                 ListOf(g.difficulty) = ListOf(f.difficulty)
           /\ e \in {"languages", "difficulty", "apply"} =>
                 SizeOf(g.repositorySize) = SizeOf(f.repositorySize)
           /\ e = "sort" => g = [f EXCEPT !.sortBy = g.sortBy, !.page = Some(1)]
           /\ e = "page" => g = [f EXCEPT !.page = g.page]]_vars

\* a language was ticked on a later page of a list sorted by stars
C28_Witness ==
    /\ home.event = "languages"
    /\ home.filters.languages = Some(<<txtGo>>)
    /\ home.filters.sortBy = Some("stars")
    /\ home.filters.page = Some(1)
    /\ home.filters.limit = Some(10)
    /\ home.currentUser # None

====
